---- MODULE Spec2Model ----
(***************************************************************************)
(* A model of FlagScale's native compress backend                          *)
(* (flagscale/runner/backend/backend_native_compress.py): the generation   *)
(* of the per-host run and stop scripts on the launching machine, and the  *)
(* behaviour of those scripts when a shell later executes them on a host;  *)
(* of a whole backend invocation (the pool read from the hostfile, then    *)
(* one script per host); of the experiment layout it sets up; and of the   *)
(* command line that starts a job (flagscale/cli.py).                      *)
(*                                                                         *)
(* A script is kept as the sequence of its statements, one record          *)
(* [op, a, b] per non-blank line the generator writes.  Paths and file     *)
(* names are strings built exactly as the f-strings and os.path.join       *)
(* build them.                                                             *)
(*                                                                         *)
(* Specifications: Spec (a generate call, step by step), SpecExec (a host  *)
(* running the scripts), SpecCli (a flagscale command), SpecInvoke (a      *)
(* backend invocation), SpecLayout (resolve_path, setup_exp_dir,           *)
(* setup_logging_dirs), SpecSetup (setup.py: parse_requirements,          *)
(* build_extras).                                                          *)
(***************************************************************************)
EXTENDS Integers, Sequences, FiniteSets, TLC

VARIABLES
    config,     \* the resolved configuration (after _update_config_compress)
    dirs,       \* directories that exist on the generating machine
    files,      \* path -> [cache, disk, mode]: the script files
    call,       \* the generate_*_script call in flight, or Idle
    done,       \* history: call key -> the last completed call with that key
    ncalls,     \* number of calls started so far
    target,     \* the host entry whose scripts a shell executes
    procs,      \* the host's processes, indexed by pid
    data,       \* path -> content of the host's pid and output files
    sh,         \* the shell executing the run script
    stopsh,     \* the shell executing the stop script
    nexec,      \* number of script executions started so far
    cli,        \* the flagscale command in progress (flagscale/cli.py)
    job,        \* what the task entrypoint has generated and handed off
    inv,        \* the backend invocation in progress: _prepare, then one call per host
    env,        \* the hostfile and the directory permissions the invocation meets
    layout,     \* the configuration setup_exp_dir and setup_logging_dirs work on
    setup       \* the requirements tree setup.py reads, and its last call

gvars == <<dirs, files, call, done, ncalls>>
xvars == <<target, procs, data, sh, stopsh, nexec>>
cvars == <<cli, job>>
ivars == <<inv, env>>
svars == <<cvars, ivars, layout, setup>>
notcli == <<config, gvars, xvars, ivars, layout, setup>>
vars == <<config, dirs, files, call, done, ncalls, target, procs, data, sh, stopsh, nexec,
          cli, job, inv, env, layout, setup>>

----------------------------------------------------------------------------
(* Bounds of the model *)

MaxCalls == 2

Hosts == {"node-a", "node-b"}
Ranks == {0, 1}

\* the host entries (host, nodeRank) the generator is called for: two hosts
\* of one rank, one host at two ranks
GenEntries == {<<"node-a", 0>>, <<"node-b", 0>>, <<"node-b", 1>>}

\* the host entries whose scripts are executed
ExecEntries == {<<"node-a", 0>>, <<"node-b", 1>>}
Commands == {"python compress.py", "llmcompressor.run"}

----------------------------------------------------------------------------
(* Paths *)

\* os.path.join(d, name) for a relative name and a directory without a
\* trailing separator
Join(d, name) == d \o "/" \o name

\* get_pkg_dir()
PkgDir == "/opt/FlagScale"

ExpDir == "/exp"

\* _update_config_compress: the logging directories are back-filled into
\* the configuration; tensorboard and wandb default under the experiment dir
UpdateConfigCompress(nsf, cmds) ==
    LET log_dir == Join(ExpDir, "compress_logs") IN
    [ no_shared_fs    |-> nsf,
      cmds            |-> cmds,
      save_dir        |-> Join(ExpDir, "checkpoints"),
      log_dir         |-> log_dir,
      scripts_dir     |-> Join(log_dir, "scripts"),
      pids_dir        |-> Join(log_dir, "pids"),
      tensorboard_dir |-> Join(ExpDir, "tensorboard"),
      wandb_save_dir  |-> Join(ExpDir, "wandb") ]

\* experiment.runner.no_shared_fs: absent, or a boolean
NoSharedFsValues == {"unset", "true", "false"}

\* experiment.cmds: absent ("none"), or a mapping holding the two hooks
CmdsValues ==
    { [present |-> FALSE, before_start |-> "", after_stop |-> ""],
      [present |-> TRUE, before_start |-> "source env.sh", after_stop |-> "rm -f lock"] }

Configs == { UpdateConfigCompress(n, c) : n \in NoSharedFsValues, c \in CmdsValues }

\* the configurations and commands the generator is called with
GenConfigs ==
    { cfg \in Configs : cfg.cmds.present = (cfg.no_shared_fs # "unset") }

GenCommands == {"python compress.py"}

\* config.experiment.runner.get("no_shared_fs", False), then its truth value
NoSharedFs(cfg) == IF cfg.no_shared_fs = "unset" THEN FALSE ELSE cfg.no_shared_fs = "true"

\* a variant that ignores the flag
HostOutputFile_IgnoresFlag(cfg, host, node_rank) ==
    Join(cfg.log_dir, "host_" \o ToString(node_rank) \o "_" \o host \o ".output")

\* lines 78-84
HostOutputFile(cfg, host, node_rank) ==
    IF NoSharedFs(cfg)
    THEN Join(cfg.log_dir, "host.output")
    ELSE Join(cfg.log_dir, "host_" \o ToString(node_rank) \o "_" \o host \o ".output")

\* lines 85-87
HostRunScriptFile(cfg, host, node_rank) ==
    Join(cfg.scripts_dir, "host_" \o ToString(node_rank) \o "_" \o host \o "_run.sh")

\* a variant that reuses the name of the run script
HostStopScriptFile_RunName(cfg, host, node_rank) ==
    Join(cfg.scripts_dir, "host_" \o ToString(node_rank) \o "_" \o host \o "_run.sh")

\* lines 137-139
HostStopScriptFile(cfg, host, node_rank) ==
    Join(cfg.scripts_dir, "host_" \o ToString(node_rank) \o "_" \o host \o "_stop.sh")

\* a variant that names the pid file by the rank alone
HostPidFile_RankOnly(cfg, host, node_rank) ==
    Join(cfg.pids_dir, "host_" \o ToString(node_rank) \o ".pid")

\* lines 88 and 141
HostPidFile(cfg, host, node_rank) ==
    Join(cfg.pids_dir, "host_" \o ToString(node_rank) \o "_" \o host \o ".pid")

\* lines 96-100
BeforeStart(cfg) == IF cfg.cmds.present THEN cfg.cmds.before_start ELSE ""

\* lines 145-149
AfterStop(cfg) == IF cfg.cmds.present THEN cfg.cmds.after_stop ELSE ""

----------------------------------------------------------------------------
(* Script contents *)

St(op, a, b) == [op |-> op, a |-> a, b |-> b]

\* a variant that forgets the pid directory
RunScriptHead_NoPidsDir(cfg) ==
    << St("shebang", "/bin/bash", ""),
       St("hook", BeforeStart(cfg), ""),
       St("mkdir", cfg.save_dir, ""),
       St("mkdir", cfg.log_dir, ""),
       St("mkdir", cfg.tensorboard_dir, ""),
       St("mkdir", cfg.wandb_save_dir, ""),
       St("cd", PkgDir, ""),
       St("export", "PYTHONPATH",
          Join(Join(PkgDir, "flagscale"), "compress") \o ":"
          \o Join(Join(PkgDir, "flagscale"), "train") \o ":" \o PkgDir) >>

\* lines 102-113: shebang, hook, mkdir -p x5, cd, export
RunScriptHead(cfg) ==
    << St("shebang", "/bin/bash", ""),
       St("hook", BeforeStart(cfg), ""),
       St("mkdir", cfg.save_dir, ""),
       St("mkdir", cfg.log_dir, ""),
       St("mkdir", cfg.pids_dir, ""),
       St("mkdir", cfg.tensorboard_dir, ""),
       St("mkdir", cfg.wandb_save_dir, ""),
       St("cd", PkgDir, ""),
       St("export", "PYTHONPATH",
          Join(Join(PkgDir, "flagscale"), "compress") \o ":"
          \o Join(Join(PkgDir, "flagscale"), "train") \o ":" \o PkgDir) >>

\* a variant that tests background before with_test
ExecStatement_BackgroundFirst(out, pid, background, with_test) ==
    IF background THEN St("bg", out, pid)
    ELSE IF with_test THEN St("diag", "", "")
    ELSE St("fg", out, "")

\* a variant whose background statement lacks the "&" and the pid capture
ExecStatement_NoDetach(out, pid, background, with_test) ==
    IF with_test THEN St("diag", "", "") ELSE St("fg", out, "")

\* lines 116-126: the one execution statement
ExecStatement(out, pid, background, with_test) ==
    IF with_test THEN St("diag", "", "")
    ELSE IF background THEN St("bg", out, pid)
    ELSE St("fg", out, "")

\* lines 114-127
RunScriptTail(cmd, out, pid, background, with_test) ==
    << St("assign", "cmd", cmd), ExecStatement(out, pid, background, with_test) >>

\* lines 151-158: shebang and the if/else on the pid file
StopScriptHead(pid) ==
    << St("shebang", "/bin/bash", ""),
       St("if_pidfile", pid, "python") >>

\* a variant that writes no hook line
StopScriptTail_NoHook(cfg) == <<>>

\* line 159
StopScriptTail(cfg) == << St("hook", AfterStop(cfg), "") >>

----------------------------------------------------------------------------
(* The generating machine *)

Idle == [pc |-> "idle"]

\* the generating process was killed by a crash of its machine
Crashed == [pc |-> "crashed"]

\* no call is in flight: a new one can start (after a crash, in a new process)
CallFree == call.pc \in {"idle", "crashed"}

NoTarget == [host |-> "", rank |-> 0, cmd |-> "", background |-> FALSE, with_test |-> FALSE]

NoShell == [status |-> "none"]

NoCli == [pc |-> "none"]

NoJob == [generated |-> {}, handed |-> {}, started |-> {}]

NoInv == [pc |-> "none"]

NoEnv == [hostfile |-> "none"]

NoLayout == [pc |-> "none"]

NoSetup == [pc |-> "none"]

Key(kind, host, rank) == [kind |-> kind, host |-> host, rank |-> rank]

NewFile == [cache |-> <<>>, disk |-> <<>>, mode |-> "0644"]

\* a variant that opens for appending: open(path, "a")
OpenW_Append(fs, path) ==
    IF path \in DOMAIN fs THEN fs
    ELSE [p \in DOMAIN fs \cup {path} |-> IF p = path THEN NewFile ELSE fs[p]]

\* open(path, "w"): create if missing, truncate otherwise; the mode of an
\* existing file is kept
OpenW(fs, path) ==
    IF path \in DOMAIN fs
    THEN [fs EXCEPT ![path].cache = <<>>]
    ELSE [p \in DOMAIN fs \cup {path} |-> IF p = path THEN NewFile ELSE fs[p]]

\* history: the completed call the new call with this key follows, if any
Previous(d, key) ==
    IF key \in DOMAIN d
    THEN << [path |-> d[key].path, args |-> d[key].args, content |-> d[key].content] >>
    ELSE <<>>

\* os.makedirs(d, exist_ok=True): d and its missing ancestors
Makedirs(ds, cfg, d) ==
    ds \cup {d} \cup (IF d \in {cfg.scripts_dir, cfg.pids_dir} THEN {cfg.log_dir, ExpDir}
                      ELSE IF d = ExpDir THEN {} ELSE {ExpDir})

\* lines 74-101: paths, os.makedirs(scripts_dir, exist_ok=True), open
GenerateRunScript(host, node_rank, cmd, background, with_test) ==
    /\ CallFree
    /\ ncalls < MaxCalls
    /\ LET path == HostRunScriptFile(config, host, node_rank) IN
       /\ dirs' = Makedirs(dirs, config, config.scripts_dir)
       /\ files' = OpenW(files, path)
       /\ call' = [ pc |-> "write", key |-> Key("run", host, node_rank),
                    args |-> <<cmd, background, with_test>>,
                    prev |-> Previous(done, Key("run", host, node_rank)),
                    path |-> path, buf |-> <<>>,
                    head |-> RunScriptHead(config),
                    tail |-> RunScriptTail(cmd,
                                           HostOutputFile(config, host, node_rank),
                                           HostPidFile(config, host, node_rank),
                                           background, with_test) ]
       /\ done' = [k \in DOMAIN done \ {Key("run", host, node_rank)} |-> done[k]]
    /\ ncalls' = ncalls + 1
    /\ UNCHANGED <<config, svars, xvars>>

\* lines 134-150
GenerateStopScript(host, node_rank) ==
    /\ CallFree
    /\ ncalls < MaxCalls
    /\ LET path == HostStopScriptFile(config, host, node_rank) IN
       /\ dirs' = Makedirs(dirs, config, config.scripts_dir)
       /\ files' = OpenW(files, path)
       /\ call' = [ pc |-> "write", key |-> Key("stop", host, node_rank),
                    args |-> <<>>,
                    prev |-> Previous(done, Key("stop", host, node_rank)),
                    path |-> path, buf |-> <<>>,
                    head |-> StopScriptHead(HostPidFile(config, host, node_rank)),
                    tail |-> StopScriptTail(config) ]
       /\ done' = [k \in DOMAIN done \ {Key("stop", host, node_rank)} |-> done[k]]
    /\ ncalls' = ncalls + 1
    /\ UNCHANGED <<config, svars, xvars>>

\* f.write(...) of the first part of the script into the file object's buffer
WriteHead ==
    /\ call.pc = "write"
    /\ call' = [call EXCEPT !.pc = "write2", !.buf = @ \o call.head]
    /\ UNCHANGED <<config, svars, dirs, files, done, ncalls, xvars>>

\* f.write(...) of the rest
WriteTail ==
    /\ call.pc = "write2"
    /\ call' = [call EXCEPT !.pc = "flush", !.buf = @ \o call.tail]
    /\ UNCHANGED <<config, svars, dirs, files, done, ncalls, xvars>>

\* the buffered writer hands its buffer to the OS when it is full
Spill ==
    /\ call.pc = "write2"
    /\ call.buf # <<>>
    /\ files' = [files EXCEPT ![call.path].cache = @ \o call.buf]
    /\ call' = [call EXCEPT !.buf = <<>>]
    /\ UNCHANGED <<config, svars, dirs, done, ncalls, xvars>>

\* f.flush()
Flush ==
    /\ call.pc = "flush"
    /\ files' = [files EXCEPT ![call.path].cache = @ \o call.buf]
    /\ call' = [call EXCEPT !.pc = "fsync", !.buf = <<>>]
    /\ UNCHANGED <<config, svars, dirs, done, ncalls, xvars>>

\* a variant without the fsync
Fsync_Skipped ==
    /\ call.pc = "fsync"
    /\ call' = [call EXCEPT !.pc = "chmod"]
    /\ UNCHANGED <<config, svars, dirs, files, done, ncalls, xvars>>

\* os.fsync(f.fileno())
Fsync ==
    /\ call.pc = "fsync"
    /\ files' = [files EXCEPT ![call.path].disk = files[call.path].cache]
    /\ call' = [call EXCEPT !.pc = "chmod"]
    /\ UNCHANGED <<config, svars, dirs, done, ncalls, xvars>>

\* leaving the with block, os.chmod(path, 0o755), return path
ChmodReturn ==
    /\ call.pc = "chmod"
    /\ files' = [files EXCEPT ![call.path].mode = "0755"]
    /\ done' = [k \in DOMAIN done \cup {call.key} |->
                   IF k = call.key
                   THEN [path |-> call.path, args |-> call.args,
                         content |-> files[call.path].cache, prev |-> call.prev]
                   ELSE done[k]]
    /\ call' = Idle
    /\ UNCHANGED <<config, svars, dirs, ncalls, xvars>>

\* the OS writes a file's dirty pages back on its own
Writeback ==
    /\ \E p \in DOMAIN files :
         /\ files[p].disk # files[p].cache
         /\ files' = [files EXCEPT ![p].disk = files[p].cache]
    /\ UNCHANGED <<config, svars, dirs, call, done, ncalls, xvars>>

\* the machine loses power: the call dies, what was not on disk is lost
Crash ==
    /\ call # Crashed
    /\ files' = [p \in DOMAIN files |-> [files[p] EXCEPT !.cache = files[p].disk]]
    /\ call' = Crashed
    /\ UNCHANGED <<config, svars, dirs, done, ncalls, xvars>>

----------------------------------------------------------------------------
(* A host executing the generated scripts.  The external execution         *)
(* collaborator starts them; bash runs a script statement by statement     *)
(* and goes on to the next statement whatever the exit status of the last. *)

MaxExec == 3

\* the commands whose command line matches the pattern of pkill -f 'python'
PythonCommands == {"python compress.py", "llmcompressor.run"}

FileNames ==
    {"host.output"} \cup
    UNION { { "host_" \o ToString(r) \o "_" \o h \o ".output",
              "host_" \o ToString(r) \o "_" \o h \o ".pid" } : h \in Hosts, r \in Ranks }

\* the directory part of a path
Dirname(cfg, p) ==
    CHOOSE d \in {cfg.log_dir, cfg.pids_dir, cfg.scripts_dir, cfg.save_dir} :
        \E n \in FileNames : Join(d, n) = p

\* the state after a completed generation call on a new file
Generated(head, tail) ==
    [cache |-> head \o tail, disk |-> head \o tail, mode |-> "0755"]

\* a variant whose stop script looks for a pid file named after the rank only
Installed_StopRankOnly(cfg, host, node_rank, cmd, background, with_test) ==
    LET run  == HostRunScriptFile(cfg, host, node_rank)
        stop == HostStopScriptFile(cfg, host, node_rank)
        out  == HostOutputFile(cfg, host, node_rank)
    IN  [p \in {run, stop} |->
           IF p = run
           THEN Generated(RunScriptHead(cfg),
                          RunScriptTail(cmd, out, HostPidFile(cfg, host, node_rank),
                                        background, with_test))
           ELSE Generated(StopScriptHead(HostPidFile_RankOnly(cfg, host, node_rank)),
                          StopScriptTail(cfg))]

\* the two scripts of one host entry, as a completed generate_run_script
\* and a completed generate_stop_script leave them
Installed(cfg, host, node_rank, cmd, background, with_test) ==
    LET run  == HostRunScriptFile(cfg, host, node_rank)
        stop == HostStopScriptFile(cfg, host, node_rank)
        out  == HostOutputFile(cfg, host, node_rank)
        pid  == HostPidFile(cfg, host, node_rank)
    IN  [p \in {run, stop} |->
           IF p = run
           THEN Generated(RunScriptHead(cfg),
                          RunScriptTail(cmd, out, pid, background, with_test))
           ELSE Generated(StopScriptHead(pid), StopScriptTail(cfg))]

Executable(p) == p \in DOMAIN files /\ files[p].mode = "0755"

Alive(pid) == pid \in DOMAIN procs /\ procs[pid].alive

Children(pid) == {c \in DOMAIN procs : procs[c].alive /\ procs[c].ppid = pid}

\* a variant that truncates: > path
OpenAppend_Truncates(d, path) ==
    [p \in DOMAIN d \cup {path} |-> IF p = path THEN <<>> ELSE d[p]]

\* >> path: open for appending, creating the file when it is missing
OpenAppend(d, path) ==
    IF path \in DOMAIN d THEN d
    ELSE [p \in DOMAIN d \cup {path} |-> IF p = path THEN <<>> ELSE d[p]]

\* > path: create or truncate, then write
WriteOver(d, path, content) ==
    [p \in DOMAIN d \cup {path} |-> IF p = path THEN content ELSE d[p]]

\* bash -c "$cmd; sync": a supervising shell and, as its child, the command
Launch(ps, cmd, out, shell) ==
    LET sup == Len(ps) + 1 IN
    ps \o << [role |-> "sup", ppid |-> 0, cmd |-> cmd, out |-> out, alive |-> TRUE,
              cwd |-> shell.cwd, env |-> shell.env, made |-> dirs],
            [role |-> "work", ppid |-> sup, cmd |-> cmd, out |-> out, alive |-> TRUE,
              cwd |-> shell.cwd, env |-> shell.env, made |-> dirs] >>

\* the subshell of a background list whose redirection fails: it has a pid
\* and runs nothing
LaunchFailed(ps, cmd, shell) ==
    ps \o << [role |-> "sup", ppid |-> 0, cmd |-> cmd, out |-> "", alive |-> FALSE,
              cwd |-> shell.cwd, env |-> shell.env, made |-> dirs] >>

Kill(ps, pids) == [i \in DOMAIN ps |-> IF i \in pids THEN [ps[i] EXCEPT !.alive = FALSE] ELSE ps[i]]

\* the collaborator runs the run script
ExecRun ==
    /\ nexec < MaxExec
    /\ sh.status \in {"none", "done"}
    /\ Executable(HostRunScriptFile(config, target.host, target.rank))
    /\ sh' = [ status |-> "running", pc |-> 1,
               lines |-> files[HostRunScriptFile(config, target.host, target.rank)].cache,
               cmd |-> "", cwd |-> "/", env |-> "", bang |-> 0, wait |-> 0,
               trace |-> <<>> ]
    /\ nexec' = nexec + 1
    /\ UNCHANGED <<config, svars, gvars, target, procs, data, stopsh>>

Advance(shell, st) == [shell EXCEPT !.pc = @ + 1, !.trace = Append(@, st.op)]

\* #!/bin/bash, the hook line (opaque to the model), cd, export, cmd="..."
RunSimple ==
    /\ sh.status = "running" /\ sh.pc <= Len(sh.lines)
    /\ LET st == sh.lines[sh.pc] IN
       /\ st.op \in {"shebang", "hook", "cd", "export", "assign"}
       /\ sh' = [Advance(sh, st) EXCEPT
                    !.cwd = IF st.op = "cd" THEN st.a ELSE @,
                    !.env = IF st.op = "export" THEN st.b ELSE @,
                    !.cmd = IF st.op = "assign" THEN st.b ELSE @]
    /\ UNCHANGED <<config, svars, gvars, target, procs, data, stopsh, nexec>>

\* mkdir -p path
RunMkdir ==
    /\ sh.status = "running" /\ sh.pc <= Len(sh.lines)
    /\ LET st == sh.lines[sh.pc] IN
       /\ st.op = "mkdir"
       /\ dirs' = Makedirs(dirs, config, st.a)
       /\ sh' = Advance(sh, st)
    /\ UNCHANGED <<config, svars, files, call, done, ncalls, target, procs, data, stopsh, nexec>>

\* nohup bash -c "$cmd; sync" >> out 2>&1 & echo $! > pidfile
RunBackground ==
    /\ sh.status = "running" /\ sh.pc <= Len(sh.lines)
    /\ LET st == sh.lines[sh.pc]
           ok == Dirname(config, st.a) \in dirs
           ps == IF ok THEN Launch(procs, sh.cmd, st.a, sh)
                       ELSE LaunchFailed(procs, sh.cmd, sh)
           bang == Len(procs) + 1
           d1 == IF ok THEN OpenAppend(data, st.a) ELSE data
       IN
       /\ st.op = "bg"
       /\ procs' = ps
       /\ data' = IF Dirname(config, st.b) \in dirs
                  THEN WriteOver(d1, st.b, <<bang>>) ELSE d1
       /\ sh' = [Advance(sh, st) EXCEPT !.bang = bang]
    /\ UNCHANGED <<config, svars, gvars, target, stopsh, nexec>>

\* bash -c "$cmd; sync" >> out 2>&1   and   bash -c "$cmd; sync":
\* the shell starts the command and waits for it
RunForeground ==
    /\ sh.status = "running" /\ sh.pc <= Len(sh.lines)
    /\ LET st == sh.lines[sh.pc]
           ok == st.op = "diag" \/ Dirname(config, st.a) \in dirs
       IN
       /\ st.op \in {"fg", "diag"}
       /\ procs' = IF ok THEN Launch(procs, sh.cmd, st.a, sh) ELSE procs
       /\ data' = IF ok /\ st.op = "fg" THEN OpenAppend(data, st.a) ELSE data
       /\ sh' = IF ok THEN [sh EXCEPT !.status = "waiting", !.wait = Len(procs) + 1,
                                      !.trace = Append(@, st.op)]
                      ELSE Advance(sh, st)
    /\ UNCHANGED <<config, svars, gvars, target, stopsh, nexec>>

\* the foreground command has ended: the shell goes on
RunResume ==
    /\ sh.status = "waiting"
    /\ ~Alive(sh.wait)
    /\ sh' = [sh EXCEPT !.status = "running", !.pc = @ + 1, !.wait = 0]
    /\ UNCHANGED <<config, svars, gvars, target, procs, data, stopsh, nexec>>

\* end of the run script
RunExit ==
    /\ sh.status = "running" /\ sh.pc > Len(sh.lines)
    /\ sh' = [sh EXCEPT !.status = "done"]
    /\ UNCHANGED <<config, svars, gvars, target, procs, data, stopsh, nexec>>

\* the workload ends by itself, having written to its standard output
WorkloadExit ==
    /\ \E p \in DOMAIN procs :
         /\ procs[p].role = "work" /\ procs[p].alive
         /\ procs' = Kill(procs, {p})
         /\ data' = IF procs[p].out # ""
                    THEN [data EXCEPT ![procs[p].out] = Append(@, p)] ELSE data
    /\ UNCHANGED <<config, svars, gvars, target, sh, stopsh, nexec>>

\* the supervising shell runs sync after the command and ends
SupervisorExit ==
    /\ \E p \in DOMAIN procs :
         /\ procs[p].role = "sup" /\ procs[p].alive
         /\ Children(p) = {}
         /\ procs' = Kill(procs, {p})
    /\ UNCHANGED <<config, svars, gvars, target, data, sh, stopsh, nexec>>

\* the collaborator runs the stop script
ExecStop ==
    /\ nexec < MaxExec
    /\ stopsh.status \in {"none", "done"}
    /\ Executable(HostStopScriptFile(config, target.host, target.rank))
    /\ stopsh' = [ status |-> "running", pc |-> 1,
                   lines |-> files[HostStopScriptFile(config, target.host, target.rank)].cache,
                   branch |-> "", found |-> FALSE, kills |-> <<>>, trace |-> <<>> ]
    /\ nexec' = nexec + 1
    /\ UNCHANGED <<config, svars, gvars, target, procs, data, sh>>

StopSimple ==
    /\ stopsh.status = "running" /\ stopsh.pc <= Len(stopsh.lines)
    /\ LET st == stopsh.lines[stopsh.pc] IN
       /\ st.op \in {"shebang", "hook"}
       /\ stopsh' = Advance(stopsh, st)
    /\ UNCHANGED <<config, svars, gvars, target, procs, data, sh, nexec>>

\* if [ -f pidfile ]; then ... else ... fi: the test
StopTest ==
    /\ stopsh.status = "running" /\ stopsh.pc <= Len(stopsh.lines)
    /\ LET st == stopsh.lines[stopsh.pc] IN
       /\ st.op = "if_pidfile"
       /\ stopsh.branch = ""
       /\ stopsh' = [stopsh EXCEPT !.branch = IF st.a \in DOMAIN data THEN "then" ELSE "else",
                                   !.found = st.a \in DOMAIN data]
    /\ UNCHANGED <<config, svars, gvars, target, procs, data, sh, nexec>>

\* a variant that signals the recorded pid itself: pkill $pid
PkillParent_Direct(ps, pid) == {c \in DOMAIN ps : ps[c].alive /\ c = pid}

\* pid=$(cat pidfile); pkill -P $pid
PkillParent(ps, pid) == {c \in DOMAIN ps : ps[c].alive /\ ps[c].ppid = pid}

\* pkill -f 'python'
PkillPattern(ps) == {p \in DOMAIN ps : ps[p].alive /\ ps[p].cmd \in PythonCommands}

StopKill ==
    /\ stopsh.status = "running" /\ stopsh.pc <= Len(stopsh.lines)
    /\ LET st == stopsh.lines[stopsh.pc] IN
       /\ st.op = "if_pidfile"
       /\ stopsh.branch # ""
       /\ LET pid == IF stopsh.branch = "then" THEN data[st.a][1] ELSE 0
              hit == IF stopsh.branch = "then" THEN PkillParent(procs, pid)
                                               ELSE PkillPattern(procs)
          IN
          /\ procs' = Kill(procs, hit)
          /\ stopsh' = [Advance(stopsh, st) EXCEPT
                          !.kills = Append(@, [how |-> IF stopsh.branch = "then"
                                                      THEN "parent" ELSE "pattern",
                                               pid |-> pid, hit |-> hit])]
    /\ UNCHANGED <<config, svars, gvars, target, data, sh, nexec>>

\* a variant that ends with rm -f of the pid file
StopExit_RemovesPid ==
    /\ stopsh.status = "running" /\ stopsh.pc > Len(stopsh.lines)
    /\ stopsh' = [stopsh EXCEPT !.status = "done"]
    /\ data' = [p \in DOMAIN data \ {stopsh.lines[2].a} |-> data[p]]
    /\ UNCHANGED <<config, svars, gvars, target, procs, sh, nexec>>

StopExit ==
    /\ stopsh.status = "running" /\ stopsh.pc > Len(stopsh.lines)
    /\ stopsh' = [stopsh EXCEPT !.status = "done"]
    /\ UNCHANGED <<config, svars, gvars, target, procs, data, sh, nexec>>

InitExec ==
    /\ config \in Configs
    /\ \E e \in ExecEntries, c \in Commands, bg \in BOOLEAN, wt \in BOOLEAN :
         /\ target = [host |-> e[1], rank |-> e[2], cmd |-> c,
                      background |-> bg, with_test |-> wt]
         /\ files = Installed(config, e[1], e[2], c, bg, wt)
    /\ dirs = Makedirs({}, config, config.scripts_dir)
    /\ call = Idle
    /\ done = <<>>
    /\ ncalls = 0
    /\ procs = <<>>
    /\ data = <<>>
    /\ sh = NoShell
    /\ stopsh = NoShell
    /\ nexec = 0
    /\ cli = NoCli
    /\ job = NoJob
    /\ inv = NoInv
    /\ env = NoEnv
    /\ layout = NoLayout
    /\ setup = NoSetup

NextExec ==
    \/ ExecRun
    \/ RunSimple
    \/ RunMkdir
    \/ RunBackground
    \/ RunForeground
    \/ RunResume
    \/ RunExit
    \/ WorkloadExit
    \/ SupervisorExit
    \/ ExecStop
    \/ StopSimple
    \/ StopTest
    \/ StopKill
    \/ StopExit

SpecExec == InitExec /\ [][NextExec]_vars

----------------------------------------------------------------------------
(* The command line (flagscale/cli.py).  A printed line is kept as the      *)
(* sequence of the pieces its f-string joins.                              *)

\* class Action
Actions == {"run", "dryrun", "test", "stop", "query", "auto_tune"}

\* the task commands and the flags each declares
Tasks == {"train", "serve", "inference", "rl", "compress"}

NoFlags == [stop |-> FALSE, dryrun |-> FALSE, test |-> FALSE, query |-> FALSE, tune |-> FALSE]

\* get_action: the (name, value) pairs in the order of the list
Flags(stop, dryrun, test, query, tune) ==
    << <<"stop", stop>>, <<"dryrun", dryrun>>, <<"test", test>>,
       <<"query", query>>, <<"auto_tune", tune>> >>

\* a variant that keeps the first two set flags only
SetFlags_FirstTwo(flags) ==
    LET sel == SelectSeq(flags, LAMBDA f : f[2])
        n == IF Len(sel) > 2 THEN 2 ELSE Len(sel)
    IN  [i \in 1..n |-> sel[i][1]]

\* [name for name, value in flags if value]
SetFlags(flags) ==
    LET sel == SelectSeq(flags, LAMBDA f : f[2])
    IN  [i \in 1..Len(sel) |-> sel[i][1]]

\* sep.join(names) for a non-empty list
JoinPieces(sep, names) ==
    [i \in 1..(2 * Len(names) - 1) |-> IF i % 2 = 1 THEN names[(i + 1) \div 2] ELSE sep]

\* raise typer.Exit(code)
Exit(code) == [kind |-> "Exit", exit_code |-> code]

Returned == [kind |-> "returned"]

Pending == [kind |-> "pending"]

\* a variant that rejects a single flag too
GetAction_RaisesOnAny(stop, dryrun, test, query, tune) ==
    LET set_flags == SetFlags(Flags(stop, dryrun, test, query, tune)) IN
    IF Len(set_flags) > 0
    THEN [raised |-> TRUE, value |-> "",
          echo |-> <<"Error: Flags are mutually exclusive: --">> \o JoinPieces(", --", set_flags)]
    ELSE [raised |-> FALSE, value |-> "run", echo |-> <<>>]

\* get_action(stop, dryrun, test, query, tune)
GetAction(stop, dryrun, test, query, tune) ==
    LET set_flags == SetFlags(Flags(stop, dryrun, test, query, tune)) IN
    IF Len(set_flags) > 1
    THEN [raised |-> TRUE, value |-> "",
          echo |-> <<"Error: Flags are mutually exclusive: --">> \o JoinPieces(", --", set_flags)]
    ELSE IF Len(set_flags) > 0
         THEN [raised |-> FALSE, value |-> set_flags[1], echo |-> <<>>]
         ELSE [raised |-> FALSE, value |-> "run", echo |-> <<>>]

\* the directory the commands are run from, and the model they name
Cwd == "/repo"
Model == "aquila"

\* resolve_config without --config: <cwd>/examples/<model>/conf/<task>.yaml
ResolveConfig(exists, task) ==
    LET parent == Cwd \o "/examples/" \o Model \o "/conf" IN
    IF exists
    THEN [raised |-> FALSE, path |-> parent, name |-> task, echo |-> <<>>]
    ELSE [raised |-> TRUE, path |-> "", name |-> "",
          echo |-> <<"Error: ", parent \o "/" \o task \o ".yaml", " does not exist">>]

\* the argument that carries the action
ActionArg(action) == "action=" \o action

\* a variant that always asks for a run
RunTaskArgs_ActionRun(config_path, config_name, action, extra_args) ==
    << "run.py", "--config-path=" \o config_path, "--config-name=" \o config_name,
       ActionArg("run") >> \o extra_args

\* run_task: the argument list given to the entrypoint through sys.argv
RunTaskArgs(config_path, config_name, action, extra_args) ==
    << "run.py", "--config-path=" \o config_path, "--config-name=" \o config_name,
       ActionArg(action) >> \o extra_args

\* exit codes: None or an integer
NoCode == [none |-> TRUE, v |-> 0]
Code(n) == [none |-> FALSE, v |-> n]
ExitCodes == {NoCode, Code(0), Code(1), Code(2)}

\* what the entrypoint may raise: SystemExit and KeyboardInterrupt derive
\* from BaseException only, the others from Exception
Raisable ==
    { [type |-> "SystemExit", code |-> c, msg |-> ""] : c \in ExitCodes }
    \cup { [type |-> "RuntimeError", code |-> NoCode, msg |-> "bad config"],
           [type |-> "ValueError", code |-> NoCode, msg |-> "Invalid task_type"],
           [type |-> "KeyboardInterrupt", code |-> NoCode, msg |-> ""] }

IsException(e) == e.type \in {"RuntimeError", "ValueError"}

NoExc == [type |-> "none", code |-> NoCode, msg |-> ""]

\* the truth value of e.code
Truthy(code) == ~code.none /\ code.v # 0

\* a variant that raises every SystemExit again
Reraised_Always(code) == TRUE

\* if e.code and e.code != 0
Reraised(code) == Truthy(code) /\ (code.none \/ code.v # 0)

\* _handle_config_error: three lines on stderr, then typer.Exit(1)
HandleConfigError(error, config_path, config_name) ==
    LET config_file == config_path \o "/" \o config_name \o ".yaml" IN
    [result |-> Exit(1),
     stderr |-> << <<"Config error in: ", config_file>>,
                   <<"Error: ", error.msg>>,
                   <<"Hint: ", "Check that the config file exists, all defaults are resolvable, and required fields are present.">> >>]

\* run_task's try statement, for an exception e raised by run_main()
RunTaskExcept(e, config_path, config_name) ==
    IF e.type = "SystemExit"
    THEN IF Reraised(e.code)
         THEN [result |-> [kind |-> "SystemExit", code |-> e.code], stderr |-> <<>>]
         ELSE [result |-> Returned, stderr |-> <<>>]
    ELSE IF IsException(e)
         THEN HandleConfigError(e, config_path, config_name)
         ELSE [result |-> [kind |-> e.type, code |-> e.code], stderr |-> <<>>]

\* a command ends before run_task is reached
CliExit(calls, echo) ==
    cli' = [cli EXCEPT !.pc = "done", !.calls = calls, !.result = Exit(1),
                       !.stderr = <<echo>>]

\* resolve_config, then run_task up to the call of run_main()
CliRunTask(calls, action, task, extra) ==
    LET c == ResolveConfig(cli.exists, task) IN
    IF c.raised THEN CliExit(calls, c.echo)
    ELSE cli' = [cli EXCEPT !.pc = "main", !.calls = calls, !.action = action,
                            !.config_path = c.path, !.config_name = c.name,
                            !.argv = RunTaskArgs(c.path, c.name, action, extra)]

GetActionCall(args) ==
    [args |-> args, res |-> GetAction(args[1], args[2], args[3], args[4], args[5])]

\* the commands whose action comes from get_action: train passes its five
\* flags, inference and rl pass False for query and tune
CliGetAction(task, args) ==
    /\ cli.pc = "start"
    /\ cli.command = task
    /\ LET g == GetActionCall(args) IN
         IF g.res.raised THEN CliExit(<<g>>, g.res.echo)
         ELSE CliRunTask(<<g>>, g.res.value, task, <<>>)
    /\ UNCHANGED <<notcli, job>>

Train ==
    CliGetAction("train", <<cli.flags.stop, cli.flags.dryrun, cli.flags.test,
                            cli.flags.query, cli.flags.tune>>)

Inference ==
    CliGetAction("inference", <<cli.flags.stop, cli.flags.dryrun, cli.flags.test, FALSE, FALSE>>)

Rl ==
    CliGetAction("rl", <<cli.flags.stop, cli.flags.dryrun, cli.flags.test, FALSE, FALSE>>)

\* serve: the action by a chain of conditionals; --port becomes an override
Serve ==
    /\ cli.pc = "start"
    /\ cli.command = "serve"
    /\ LET action == IF cli.flags.stop THEN "stop"
                     ELSE IF cli.flags.test THEN "test"
                     ELSE IF cli.flags.tune THEN "auto_tune" ELSE "run"
           extra == IF cli.port # 0
                    THEN << "+experiment.runner.cli_args.port=" \o ToString(cli.port) >>
                    ELSE <<>>
       IN  CliRunTask(<<>>, action, "serve", extra)
    /\ UNCHANGED <<notcli, job>>

Compress ==
    /\ cli.pc = "start"
    /\ cli.command = "compress"
    /\ LET action == IF cli.flags.stop THEN "stop"
                     ELSE IF cli.flags.dryrun THEN "dryrun" ELSE "run"
       IN  CliRunTask(<<>>, action, "compress", <<>>)
    /\ UNCHANGED <<notcli, job>>

\* flagscale run --config-path --config-name --action
RunCmd ==
    /\ cli.pc = "start"
    /\ cli.command = "run"
    /\ IF ~cli.exists
       THEN CliExit(<<>>, <<"Error: Config file does not exist: ",
                            Cwd \o "/conf/" \o "train" \o ".yaml">>)
       ELSE cli' = [cli EXCEPT !.pc = "main", !.action = cli.option,
                               !.config_path = Cwd \o "/conf", !.config_name = "train",
                               !.argv = RunTaskArgs(Cwd \o "/conf", "train", cli.option, <<>>)]
    /\ UNCHANGED <<notcli, job>>

\* the task entrypoint (flagscale.run.main), which run_task calls: it reads
\* the action from its arguments and routes it
ArgvAction(argv) == CHOOSE a \in Actions : ActionArg(a) = argv[4]

\* node ranks of the pool the job runs on
Pool == {0, 1}

\* run, test, auto_tune and dryrun generate run scripts, stop generates stop
\* scripts, query generates nothing
Wanted(action) ==
    IF action = "query" THEN {}
    ELSE { <<IF action = "stop" THEN "stop" ELSE "run", r>> : r \in Pool }

\* the actions whose scripts go to the execution collaborator
HandsOff(action) == action \in {"run", "test", "auto_tune", "stop"}

DispatchGenerate ==
    /\ cli.pc = "main"
    /\ \E s \in Wanted(ArgvAction(cli.argv)) \ job.generated :
         job' = [job EXCEPT !.generated = @ \cup {s}]
    /\ UNCHANGED <<notcli, cli>>

DispatchHandOff ==
    /\ cli.pc = "main"
    /\ HandsOff(ArgvAction(cli.argv))
    /\ \E s \in job.generated \ job.handed :
         job' = [job EXCEPT !.handed = @ \cup {s}]
    /\ UNCHANGED <<notcli, cli>>

\* the execution collaborator runs a script it was handed, on its host
CollaboratorExecute ==
    /\ \E s \in job.handed \ job.started :
         job' = [job EXCEPT !.started = @ \cup {s}]
    /\ UNCHANGED <<notcli, cli>>

\* the entrypoint has done all the action asks for
Dispatched ==
    LET a == ArgvAction(cli.argv) IN
    /\ job.generated = Wanted(a)
    /\ HandsOff(a) => job.handed = job.generated

\* run_main() returns
MainReturns ==
    /\ cli.pc = "main"
    /\ Dispatched
    /\ cli' = [cli EXCEPT !.pc = "done", !.result = Returned]
    /\ UNCHANGED <<notcli, job>>

\* run_main() raises
MainRaises ==
    /\ cli.pc = "main"
    /\ \E e \in Raisable :
         LET r == RunTaskExcept(e, cli.config_path, cli.config_name) IN
         cli' = [cli EXCEPT !.pc = "done", !.exc = e, !.result = r.result,
                            !.stderr = r.stderr]
    /\ UNCHANGED <<notcli, job>>

\* the flags a command declares; the others stay False
Declared(command) ==
    CASE command = "train" -> {"stop", "dryrun", "test", "query", "tune"}
      [] command = "serve" -> {"stop", "test", "tune"}
      [] command \in {"inference", "rl"} -> {"stop", "dryrun", "test"}
      [] command = "compress" -> {"stop", "dryrun"}
      [] OTHER -> {}

CommandLines ==
    { [command |-> c, flags |-> f, option |-> "run", port |-> p] :
        c \in Tasks, f \in [DOMAIN NoFlags -> BOOLEAN], p \in {0, 8000} }
    \cup { [command |-> "run", flags |-> NoFlags, option |-> a, port |-> 0] : a \in Actions }

PlainConfig == UpdateConfigCompress("unset", [present |-> FALSE, before_start |-> "", after_stop |-> ""])

InitCli ==
    /\ config = PlainConfig
    /\ dirs = {}
    /\ files = <<>>
    /\ call = Idle
    /\ done = <<>>
    /\ ncalls = 0
    /\ target = NoTarget
    /\ procs = <<>>
    /\ data = <<>>
    /\ sh = NoShell
    /\ stopsh = NoShell
    /\ nexec = 0
    /\ \E l \in CommandLines, e \in BOOLEAN :
         /\ \A n \in DOMAIN NoFlags : l.flags[n] => n \in Declared(l.command)
         /\ l.port # 0 => l.command = "serve"
         /\ cli = [pc |-> "start", command |-> l.command, flags |-> l.flags,
                   option |-> l.option, port |-> l.port, exists |-> e,
                   calls |-> <<>>, action |-> "", config_path |-> "", config_name |-> "",
                   argv |-> <<>>, exc |-> NoExc, result |-> Pending, stderr |-> <<>>]
    /\ job = NoJob
    /\ inv = NoInv
    /\ env = NoEnv
    /\ layout = NoLayout
    /\ setup = NoSetup

NextCli ==
    \/ Train
    \/ Serve
    \/ Inference
    \/ Rl
    \/ Compress
    \/ RunCmd
    \/ DispatchGenerate
    \/ DispatchHandOff
    \/ CollaboratorExecute
    \/ MainReturns
    \/ MainRaises

SpecCli == InitCli /\ [][NextCli]_vars

----------------------------------------------------------------------------
(* A backend invocation: the constructor (_prepare) reads the pool of      *)
(* hosts, then the caller asks for one script per host of the pool.  A     *)
(* line of the hostfile is kept as the sequence of its fields.             *)

MaxLines == 3

MaxInvocations == 2

\* blank, comment, a host alone, a host with a slot count
HostfileLines == { <<>>, <<"#", "gpu nodes">>, <<"node-a">>, <<"node-b", "slots=2">> }

HostfilePath == "/etc/hostfile"

\* the value of a slot-count field
SlotsOf == ("slots=2" :> 2)

Blank(line) == line = <<>>

Comment(line) == line # <<>> /\ line[1] = "#"

SlotCount(line) == IF Len(line) >= 2 /\ line[2] \in DOMAIN SlotsOf THEN SlotsOf[line[2]] ELSE 1

None == [none |-> TRUE, path |-> ""]

\* a variant whose default is a path
HostfileArg_DefaultPath(hostfile) ==
    [none |-> FALSE, path |-> IF hostfile.configured THEN hostfile.path ELSE "hostfile"]

\* self.config.experiment.runner.get("hostfile", None)
HostfileArg(hostfile) ==
    IF hostfile.configured THEN [none |-> FALSE, path |-> hostfile.path] ELSE None

NoError == [type |-> "none", op |-> "", attrs |-> <<>>]

\* the single entry that stands for the local machine
LocalEntry == [host |-> "localhost", slots |-> 1, node_rank |-> 0]

\* a variant that numbers the entries by their line in the file
ParseHostfile_LineNumbers(arg, hostfile) ==
    IF arg.none
    THEN [exc |-> NoError, pool |-> <<LocalEntry>>]
    ELSE IF ~(hostfile.configured /\ hostfile.path = arg.path /\ hostfile.exists)
    THEN [exc |-> [type |-> "HostfileNotFound", op |-> "parse_hostfile",
                   attrs |-> ("filename" :> arg.path)],
          pool |-> <<>>]
    ELSE LET idx  == SelectSeq([i \in 1..Len(hostfile.lines) |-> i],
                               LAMBDA i : ~Blank(hostfile.lines[i]) /\ ~Comment(hostfile.lines[i]))
         IN  [exc |-> NoError,
              pool |-> [i \in 1..Len(idx) |->
                          [host |-> hostfile.lines[idx[i]][1],
                           slots |-> SlotCount(hostfile.lines[idx[i]]),
                           node_rank |-> idx[i] - 1]]]

\* parse_hostfile(path or None)
ParseHostfile(arg, hostfile) ==
    IF arg.none
    THEN [exc |-> NoError, pool |-> <<LocalEntry>>]
    ELSE IF ~(hostfile.configured /\ hostfile.path = arg.path /\ hostfile.exists)
    THEN [exc |-> [type |-> "HostfileNotFound", op |-> "parse_hostfile",
                   attrs |-> ("filename" :> arg.path)],
          pool |-> <<>>]
    ELSE LET kept == SelectSeq(hostfile.lines, LAMBDA l : ~Blank(l) /\ ~Comment(l))
         IN  [exc |-> NoError,
              pool |-> [i \in 1..Len(kept) |->
                          [host |-> kept[i][1], slots |-> SlotCount(kept[i]),
                           node_rank |-> i - 1]]]

\* the path and the text of the script a call generates
ScriptPath(kind, host, node_rank) ==
    IF kind = "run" THEN HostRunScriptFile(config, host, node_rank)
    ELSE HostStopScriptFile(config, host, node_rank)

ScriptHead(kind, host, node_rank) ==
    IF kind = "run" THEN RunScriptHead(config)
    ELSE StopScriptHead(HostPidFile(config, host, node_rank))

ScriptTail(kind, host, node_rank) ==
    IF kind = "run"
    THEN RunScriptTail("python compress.py", HostOutputFile(config, host, node_rank),
                       HostPidFile(config, host, node_rank), TRUE, FALSE)
    ELSE StopScriptTail(config)

\* os.makedirs(scripts_dir, exist_ok=True) has to create the directory
\* inside a log directory that cannot be written
MakedirsFails(ds, ro) ==
    /\ config.scripts_dir \notin ds
    /\ config.log_dir \in ds
    /\ config.log_dir \in ro

\* open(path, "w") has to create the file inside a scripts directory that
\* cannot be written; an existing file is opened whatever the directory
OpenFails(fs, ro, path) == path \notin DOMAIN fs /\ config.scripts_dir \in ro

\* what the operating system raises
PermissionError(op, filename) ==
    [type |-> "PermissionError", op |-> op,
     attrs |-> ("errno" :> "EACCES" @@ "filename" :> filename)]

NoSpace(op) == [type |-> "OSError", op |-> op, attrs |-> ("errno" :> "ENOSPC")]

NotOwner(op, filename) ==
    [type |-> "PermissionError", op |-> op,
     attrs |-> ("errno" :> "EPERM" @@ "filename" :> filename)]

\* the faults a call may meet besides the directory permissions: the disk
\* fills up while the script is written, or the file belongs to someone else
Faults == {"none", "write", "chmod"}

\* one whole generate_run_script or generate_stop_script call: neither
\* method catches an exception, so the first failing step ends the call
GenerateCall(ds, fs, ro, fault, kind, host, node_rank) ==
    LET path == ScriptPath(kind, host, node_rank)
        head == ScriptHead(kind, host, node_rank)
        tail == ScriptTail(kind, host, node_rank)
        made == Makedirs(ds, config, config.scripts_dir)
        open == OpenW(fs, path)
    IN  IF MakedirsFails(ds, ro)
        THEN [dirs |-> ds, files |-> fs, exc |-> PermissionError("makedirs", config.scripts_dir)]
        ELSE IF OpenFails(fs, ro, path)
        THEN [dirs |-> made, files |-> fs, exc |-> PermissionError("open", path)]
        ELSE IF fault = "write"
        THEN [dirs |-> made, files |-> [open EXCEPT ![path].cache = head],
              exc |-> NoSpace("write")]
        ELSE IF fault = "chmod"
        THEN [dirs |-> made,
              files |-> [open EXCEPT ![path].cache = head \o tail, ![path].disk = head \o tail],
              exc |-> NotOwner("chmod", path)]
        ELSE [dirs |-> made,
              files |-> [open EXCEPT ![path] = Generated(head, tail)],
              exc |-> NoError]

notinv == <<config, call, done, ncalls, xvars, cvars, layout, setup>>

\* NativeCompressBackend(config): _prepare reads the pool; the scripts asked
\* for afterwards are run scripts or stop scripts, as the job's action says
Prepare ==
    /\ inv.pc \in {"idle", "failed", "finished"}
    /\ inv.n < MaxInvocations
    /\ LET p == ParseHostfile(HostfileArg(env.hostfile), env.hostfile) IN
         inv' = [inv EXCEPT !.pc = IF p.exc = NoError THEN "generate" ELSE "failed",
                            !.resources = p.pool, !.i = 0,
                            !.exc = p.exc, !.generated = {},
                            !.parses = Append(@, p.pool), !.n = @ + 1]
    /\ dirs' = Makedirs(dirs, config, ExpDir)
    /\ UNCHANGED <<files, env, notinv>>

\* the caller's next generate call, for the next host of the pool
GenerateNext ==
    /\ inv.pc = "generate"
    /\ inv.i < Len(inv.resources)
    /\ \E fault \in Faults :
         LET e == inv.resources[inv.i + 1]
             r == GenerateCall(dirs, files, env.ro, fault, inv.kind, e.host, e.node_rank)
         IN  /\ dirs' = r.dirs
             /\ files' = r.files
             /\ inv' = IF r.exc = NoError
                       THEN [inv EXCEPT !.i = @ + 1,
                                        !.generated = @ \cup {ScriptPath(inv.kind, e.host, e.node_rank)}]
                       ELSE [inv EXCEPT !.pc = "failed", !.exc = r.exc]
    /\ UNCHANGED <<env, notinv>>

\* every host of the pool has its script
Finish ==
    /\ inv.pc = "generate"
    /\ inv.i = Len(inv.resources)
    /\ inv' = [inv EXCEPT !.pc = "finished"]
    /\ UNCHANGED <<dirs, files, env, notinv>>

\* between two invocations, an existing directory is made read-only
SetReadOnly ==
    /\ inv.pc # "generate"
    /\ \E d \in {config.log_dir, config.scripts_dir} \cap dirs :
         /\ d \notin env.ro
         /\ env' = [env EXCEPT !.ro = @ \cup {d}]
    /\ UNCHANGED <<dirs, files, inv, notinv>>

\* all sequences of at most n lines
LinesUpTo(n) == UNION { [1..k -> HostfileLines] : k \in 0..n }

Hostfiles ==
    { [configured |-> FALSE, path |-> "", exists |-> FALSE, lines |-> <<>>],
      [configured |-> TRUE, path |-> HostfilePath, exists |-> FALSE, lines |-> <<>>] }
    \cup { [configured |-> TRUE, path |-> HostfilePath, exists |-> TRUE, lines |-> l] :
             l \in LinesUpTo(MaxLines) }

InitInvoke ==
    /\ config = PlainConfig
    /\ dirs = {}
    /\ files = <<>>
    /\ call = Idle
    /\ done = <<>>
    /\ ncalls = 0
    /\ target = NoTarget
    /\ procs = <<>>
    /\ data = <<>>
    /\ sh = NoShell
    /\ stopsh = NoShell
    /\ nexec = 0
    /\ cli = NoCli
    /\ job = NoJob
    /\ layout = NoLayout
    /\ setup = NoSetup
    /\ env \in { [hostfile |-> h, ro |-> {}] : h \in Hostfiles }
    /\ \E kind \in {"run", "stop"} :
         inv = [pc |-> "idle", kind |-> kind, resources |-> <<>>, i |-> 0, exc |-> NoError,
                generated |-> {}, parses |-> <<>>, n |-> 0]

NextInvoke ==
    \/ Prepare
    \/ GenerateNext
    \/ Finish
    \/ SetReadOnly

SpecInvoke == InitInvoke /\ [][NextInvoke]_vars

----------------------------------------------------------------------------
(* The experiment layout (flagscale.runner.utils: resolve_path,            *)
(* setup_exp_dir, setup_logging_dirs), which _update_config_compress       *)
(* calls.  A path is kept as its components; its text is their join.       *)

MaxSetups == 2

Path(abs, parts) == [abs |-> abs, parts |-> parts]

\* os.path.normpath on the components: "." is dropped, ".." takes the
\* component before it away
RECURSIVE Normalize(_)
Normalize(parts) ==
    IF parts = <<>> THEN <<>>
    ELSE LET init == Normalize(SubSeq(parts, 1, Len(parts) - 1))
             last == parts[Len(parts)]
         IN  IF last = "." THEN init
             ELSE IF last = ".."
                  THEN IF init = <<>> THEN <<>> ELSE SubSeq(init, 1, Len(init) - 1)
                  ELSE Append(init, last)

\* os.path.join(path, name)
JoinPath(p, name) == Path(p.abs, Append(p.parts, name))

\* the text of a path
RECURSIVE PathText(_)
PathText(p) ==
    IF p.parts = <<>> THEN (IF p.abs THEN "/" ELSE ".")
    ELSE IF Len(p.parts) = 1 THEN (IF p.abs THEN "/" ELSE "") \o p.parts[1]
    ELSE PathText(Path(p.abs, SubSeq(p.parts, 1, Len(p.parts) - 1)))
         \o "/" \o p.parts[Len(p.parts)]

\* a variant that joins every path to the working directory
ResolvePath_Rejoins(p, cwd) == Path(TRUE, Normalize(cwd.parts \o p.parts))

\* resolve_path(path): an absolute path is returned as it is, a relative
\* one is joined to the working directory and normalised
ResolvePath(p, cwd) ==
    IF p.abs THEN p ELSE Path(TRUE, Normalize(cwd.parts \o p.parts))

\* a directory and its ancestors below the root
WithParents(p) == { PathText(Path(TRUE, SubSeq(p.parts, 1, k))) : k \in 1..Len(p.parts) }

\* the files below a directory
Below(fs, d) ==
    { f \in DOMAIN fs : \E n \in {"marker.txt"} : f = PathText(d) \o "/" \o n }

\* a variant that empties the experiment directory before creating it
SetupExpDir_Clears(exp_dir, cwd, ds, fs) ==
    LET p == ResolvePath(exp_dir, cwd) IN
    [ret |-> p, dirs |-> ds \cup WithParents(p),
     files |-> [f \in DOMAIN fs \ Below(fs, p) |-> fs[f]]]

\* setup_exp_dir(config): resolve experiment.exp_dir, os.makedirs(exp_dir,
\* exist_ok=True), return it
SetupExpDir(exp_dir, cwd, ds, fs) ==
    LET p == ResolvePath(exp_dir, cwd) IN
    [ret |-> p, dirs |-> ds \cup WithParents(p), files |-> fs]

\* an optional key of the logging configuration: absent, None, or a path
Absent == [state |-> "absent", value |-> Path(FALSE, <<>>)]
IsNone == [state |-> "none", value |-> Path(FALSE, <<>>)]
Value(p) == [state |-> "set", value |-> p]

\* a variant that always derives the log directory from the experiment's
SetupLoggingDirs_IgnoresLogDir(logging_config, exp_dir, log_subdir, cwd) ==
    LET log_dir == JoinPath(exp_dir, log_subdir)
    IN  [ret |-> log_dir,
         config |-> [logging_config EXCEPT !.log_dir = Value(log_dir),
                                           !.scripts_dir = Value(JoinPath(log_dir, "scripts")),
                                           !.pids_dir = Value(JoinPath(log_dir, "pids"))]]

\* setup_logging_dirs(logging_config, exp_dir, log_subdir="logs")
SetupLoggingDirs(logging_config, exp_dir, log_subdir, cwd) ==
    LET log_dir == IF logging_config.log_dir.state = "set"
                   THEN ResolvePath(logging_config.log_dir.value, cwd)
                   ELSE JoinPath(exp_dir, log_subdir)
    IN  [ret |-> log_dir,
         config |-> [logging_config EXCEPT !.log_dir = Value(log_dir),
                                           !.scripts_dir = Value(JoinPath(log_dir, "scripts")),
                                           !.pids_dir = Value(JoinPath(log_dir, "pids"))]]

notlayout == <<config, call, done, ncalls, xvars, cvars, ivars, setup>>

SetupExpDirCall ==
    /\ layout.pc = "ready"
    /\ layout.n < MaxSetups
    /\ LET r == SetupExpDir(layout.exp_dir, layout.cwd, dirs, files) IN
         /\ dirs' = r.dirs
         /\ files' = r.files
         /\ layout' = [layout EXCEPT !.n = @ + 1, !.returns = Append(@, r.ret)]
    /\ UNCHANGED notlayout

\* the log_subdir of a call: the default, or the one a backend passes
LogSubdirs == {"logs", "compress_logs", "serve_logs"}

SetupLoggingDirsCall ==
    /\ layout.pc = "ready"
    /\ layout.n < MaxSetups
    /\ \E log_subdir \in LogSubdirs :
         LET exp_dir == ResolvePath(layout.exp_dir, layout.cwd)
             r == SetupLoggingDirs(layout.logging, exp_dir, log_subdir, layout.cwd)
         IN  layout' = [layout EXCEPT !.n = @ + 1, !.logging = r.config,
                                      !.calls = Append(@, [before |-> layout.logging,
                                                           exp_dir |-> exp_dir,
                                                           log_subdir |-> log_subdir,
                                                           ret |-> r.ret,
                                                           after |-> r.config])]
    /\ UNCHANGED <<dirs, files, notlayout>>

\* os.path.exists(path): the directories and files of the machine, the
\* working directory and its ancestors
Exists(p, cwd, ds, fs) ==
    PathText(p) \in ds \cup DOMAIN fs \cup WithParents(cwd) \cup {"/"}

\* the FileNotFoundError resolve_path raises and the warning it logs, as the
\* pieces of their messages
PathNotFound(config_key, p) ==
    [type |-> "FileNotFoundError",
     message |-> <<"Config '", config_key, "' path does not exist: ", PathText(p)>>]

NoPathError == [type |-> "none", message |-> <<>>]

MissingWarning(config_key, p) ==
    <<"Config '", config_key, "' path does not exist: ", PathText(p)>>

\* a variant that warns before it looks at raise_missing
CheckedResolvePath_WarnsFirst(p, cwd, exists, config_key, check_exists, raise_missing) ==
    LET r == ResolvePath(p, cwd) IN
    IF ~exists /\ check_exists
    THEN [ret |-> r, exc |-> NoPathError, warnings |-> << MissingWarning(config_key, r) >>]
    ELSE IF ~exists /\ raise_missing
    THEN [ret |-> r, exc |-> PathNotFound(config_key, r), warnings |-> <<>>]
    ELSE [ret |-> r, exc |-> NoPathError, warnings |-> <<>>]

\* resolve_path(path, config_key="", check_exists=False, raise_missing=False)
\* with its checks: the result, the exception raised, the warnings logged
CheckedResolvePath(p, cwd, exists, config_key, check_exists, raise_missing) ==
    LET r == ResolvePath(p, cwd) IN
    IF ~exists /\ raise_missing
    THEN [ret |-> r, exc |-> PathNotFound(config_key, r), warnings |-> <<>>]
    ELSE IF ~exists /\ check_exists
    THEN [ret |-> r, exc |-> NoPathError, warnings |-> << MissingWarning(config_key, r) >>]
    ELSE [ret |-> r, exc |-> NoPathError, warnings |-> <<>>]

\* the paths resolve_path is called with, besides the experiment directory
\* of the configuration, and the keys
ResolveArgs == { Path(TRUE, <<"nonexistent", "path", "xyzzy">>) }

ConfigKeys == {"", "hydra.config_path"}

NoResolve == [called |-> FALSE]

\* one call of resolve_path, and a second one on what the first returned
ResolvePathCall ==
    /\ layout.pc = "ready"
    /\ layout.n < MaxSetups
    /\ \E p \in ResolveArgs \cup {layout.exp_dir}, config_key \in ConfigKeys,
          check_exists \in BOOLEAN, raise_missing \in BOOLEAN :
         LET exists == Exists(ResolvePath(p, layout.cwd), layout.cwd, dirs, files)
             r == CheckedResolvePath(p, layout.cwd, exists, config_key,
                                     check_exists, raise_missing)
         IN  layout' = [layout EXCEPT !.n = @ + 1, !.resolved =
                          [called |-> TRUE, path |-> p, config_key |-> config_key,
                           check_exists |-> check_exists, raise_missing |-> raise_missing,
                           exists |-> exists, ret |-> r.ret, exc |-> r.exc,
                           warnings |-> r.warnings,
                           again |-> ResolvePath(r.ret, layout.cwd)]]
    /\ UNCHANGED <<dirs, files, notlayout>>

WorkDirs == { Path(TRUE, <<"work">>), Path(TRUE, <<"work", "sub">>) }

ExpDirs ==
    { Path(TRUE, <<"tmp", "exp1">>), Path(TRUE, <<"tmp", "a", "b", "c">>),
      Path(FALSE, <<"rel_exp_dir">>), Path(FALSE, <<"..", "sibling">>) }

LogDirs ==
    { Absent, IsNone, Value(Path(TRUE, <<"data", "custom_logs">>)),
      Value(Path(FALSE, <<"relative_logs">>)), Value(Path(FALSE, <<".", "logs", "run1">>)) }

\* a file somebody left in the experiment directory
Marker == [cache |-> << St("text", "keep", "") >>, disk |-> << St("text", "keep", "") >>,
           mode |-> "0644"]

InitLayout ==
    /\ config = PlainConfig
    /\ call = Idle
    /\ done = <<>>
    /\ ncalls = 0
    /\ target = NoTarget
    /\ procs = <<>>
    /\ data = <<>>
    /\ sh = NoShell
    /\ stopsh = NoShell
    /\ nexec = 0
    /\ cli = NoCli
    /\ job = NoJob
    /\ inv = NoInv
    /\ env = NoEnv
    /\ setup = NoSetup
    /\ \E cwd \in WorkDirs, e \in ExpDirs, l \in LogDirs, existing \in BOOLEAN :
         LET p == ResolvePath(e, cwd) IN
         /\ dirs = IF existing THEN WithParents(p) ELSE {}
         /\ files = IF existing THEN (PathText(p) \o "/marker.txt" :> Marker) ELSE <<>>
         /\ layout = [pc |-> "ready", cwd |-> cwd, exp_dir |-> e,
                      logging |-> [log_dir |-> l, scripts_dir |-> Absent, pids_dir |-> Absent],
                      n |-> 0, returns |-> <<>>, calls |-> <<>>, resolved |-> NoResolve,
                      files0 |-> IF existing THEN (PathText(p) \o "/marker.txt" :> Marker)
                                 ELSE <<>>]

NextLayout ==
    \/ SetupExpDirCall
    \/ SetupLoggingDirsCall
    \/ ResolvePathCall

SpecLayout == InitLayout /\ [][NextLayout]_vars

----------------------------------------------------------------------------
(* The package's setup script (setup.py): parse_requirements and           *)
(* build_extras.  A requirements file is the sequence of its lines; a line *)
(* is kept, after strip(), as the prefix the parser tests for ("#", "-r "  *)
(* or "-", "" when it has none) and the rest; the words between the        *)
(* brackets of a "# [...]" comment are kept as pairs <<dashes, name>>.     *)
(* Files are named by their path components relative to SCRIPT_DIR.        *)

MaxReqLines == 3

\* the depth of calls at which the interpreter raises RecursionError
RecursionLimit == 4

Line(head, text) == [head |-> head, text |-> text, bracket |-> FALSE, words |-> <<>>,
                     path |-> <<>>]

\* "# [w1 w2 ...]": a comment that matches ^#\s*\[([^\]]+)\]\s*$
Bracket(words) == [head |-> "#", text |-> "", bracket |-> TRUE, words |-> words,
                   path |-> <<>>]

\* "-r <path>"
Include(path) == [head |-> "-r ", text |-> "", bracket |-> FALSE, words |-> <<>>,
                  path |-> path]

LineText(line) == line.head \o line.text

\* line.startswith(prefix) for the three prefixes the parser tests
StartsWith(line, prefix) ==
    CASE prefix = "#" -> line.head = "#"
      [] prefix = "-r " -> line.head = "-r "
      [] prefix = "-" -> line.head \in {"-", "-r "}

\* dict.update and d[k] = v
Update(d, e) == [k \in DOMAIN d \cup DOMAIN e |-> IF k \in DOMAIN e THEN e[k] ELSE d[k]]
Put(d, k, v) == [x \in DOMAIN d \cup {k} |-> IF x = k THEN v ELSE d[x]]

NoDict == [k \in {} |-> <<>>]

EmptyResult == [raised |-> FALSE, deps |-> <<>>, pip_options |-> <<>>, pkg_options |-> NoDict]

RECURSIVE ParseRequirements(_, _, _)
RECURSIVE ParseLines(_, _, _, _, _, _)

\* a variant that leaves the pending options in place after a package line
ParseLine_KeepsPending(fs, base_dir, line, acc, depth) ==
    IF LineText(line) = "" THEN acc
    ELSE IF StartsWith(line, "#")
    THEN IF line.bracket /\ line.words # <<>>
              /\ \A k \in DOMAIN line.words : line.words[k][1] = "--"
         THEN [acc EXCEPT !.pending_options =
                 @ \o [k \in DOMAIN line.words |-> line.words[k][1] \o line.words[k][2]]]
         ELSE acc
    ELSE IF StartsWith(line, "-r ")
    THEN LET sub == ParseRequirements(fs, Normalize(base_dir \o line.path), depth + 1) IN
         IF sub.raised THEN [acc EXCEPT !.raised = TRUE]
         ELSE [acc EXCEPT !.deps = @ \o sub.deps,
                          !.pip_options = @ \o sub.pip_options,
                          !.pkg_options = Update(@, sub.pkg_options)]
    ELSE IF StartsWith(line, "-")
    THEN [acc EXCEPT !.pip_options = Append(@, LineText(line))]
    ELSE IF acc.pending_options # <<>>
    THEN [acc EXCEPT !.deps = Append(@, LineText(line)),
                     !.pkg_options = Put(@, LineText(line), acc.pending_options)]
    ELSE [acc EXCEPT !.deps = Append(@, LineText(line))]

\* the body of the loop over the lines (lines 50-74)
ParseLine(fs, base_dir, line, acc, depth) ==
    IF LineText(line) = "" THEN acc
    ELSE IF StartsWith(line, "#")
    THEN IF line.bracket /\ line.words # <<>>
              /\ \A k \in DOMAIN line.words : line.words[k][1] = "--"
         THEN [acc EXCEPT !.pending_options =
                 @ \o [k \in DOMAIN line.words |-> line.words[k][1] \o line.words[k][2]]]
         ELSE acc
    ELSE IF StartsWith(line, "-r ")
    THEN LET sub == ParseRequirements(fs, Normalize(base_dir \o line.path), depth + 1) IN
         IF sub.raised THEN [acc EXCEPT !.raised = TRUE]
         ELSE [acc EXCEPT !.deps = @ \o sub.deps,
                          !.pip_options = @ \o sub.pip_options,
                          !.pkg_options = Update(@, sub.pkg_options)]
    ELSE IF StartsWith(line, "-")
    THEN [acc EXCEPT !.pip_options = Append(@, LineText(line))]
    ELSE IF acc.pending_options # <<>>
    THEN [acc EXCEPT !.deps = Append(@, LineText(line)),
                     !.pkg_options = Put(@, LineText(line), acc.pending_options),
                     !.pending_options = <<>>]
    ELSE [acc EXCEPT !.deps = Append(@, LineText(line))]

\* for line in f, from line i on; an exception ends the loop
ParseLines(fs, base_dir, lines, i, acc, depth) ==
    IF acc.raised \/ i > Len(lines) THEN acc
    ELSE ParseLines(fs, base_dir, lines, i + 1,
                    ParseLine(fs, base_dir, lines[i], acc, depth), depth)

\* parse_requirements(req_file), called at this depth of the call stack: a
\* call beyond the interpreter's limit raises RecursionError, which nothing
\* catches
ParseRequirements(fs, req_file, depth) ==
    IF depth > RecursionLimit THEN [EmptyResult EXCEPT !.raised = TRUE]
    ELSE IF req_file \notin DOMAIN fs THEN EmptyResult
    ELSE LET acc == ParseLines(fs, SubSeq(req_file, 1, Len(req_file) - 1), fs[req_file], 1,
                               [raised |-> FALSE, deps |-> <<>>, pip_options |-> <<>>,
                                pkg_options |-> NoDict, pending_options |-> <<>>], depth)
         IN  [raised |-> acc.raised, deps |-> acc.deps, pip_options |-> acc.pip_options,
              pkg_options |-> acc.pkg_options]

\* list(dict.fromkeys(opts)): the first occurrence of each, in order
RECURSIVE FromKeys(_)
FromKeys(opts) ==
    IF opts = <<>> THEN <<>>
    ELSE LET init == FromKeys(SubSeq(opts, 1, Len(opts) - 1))
             last == opts[Len(opts)]
         IN  IF \E k \in DOMAIN init : init[k] = last THEN init ELSE Append(init, last)

\* the names of the requirements tree in sorted order, and the task of a
\* name that ends with ".txt"
SortedNames == <<"base.txt", "cuda", "dev.txt", "notes.md", "train.txt">>
TaskOf == ("base.txt" :> "base" @@ "dev.txt" :> "dev" @@ "train.txt" :> "train")

IsDir(fs, path) ==
    \E f \in DOMAIN fs : Len(f) > Len(path) /\ SubSeq(f, 1, Len(path)) = path

\* sorted(os.listdir(path))
ListDir(fs, path) ==
    SelectSeq(SortedNames,
              LAMBDA n : \E f \in DOMAIN fs :
                           Len(f) > Len(path) /\ SubSeq(f, 1, Len(path) + 1) = Append(path, n))

NoExtras == [raised |-> FALSE, extras |-> NoDict, pip_options |-> NoDict,
             pkg_options |-> NoDict]

\* one requirements file's share of the three maps (lines 106-115, 117-124)
AddExtra(fs, acc, extra_name, req_file) ==
    LET r == ParseRequirements(fs, req_file, 1)
        normal_deps == SelectSeq(r.deps, LAMBDA d : d \notin DOMAIN r.pkg_options)
    IN  IF acc.raised \/ r.raised THEN [acc EXCEPT !.raised = TRUE]
        ELSE [raised |-> FALSE,
              extras |-> IF normal_deps # <<>> \/ DOMAIN r.pkg_options # {}
                         THEN Put(acc.extras, extra_name, normal_deps) ELSE acc.extras,
              pip_options |-> IF r.pip_options # <<>>
                              THEN Put(acc.pip_options, extra_name, FromKeys(r.pip_options))
                              ELSE acc.pip_options,
              pkg_options |-> IF DOMAIN r.pkg_options # {}
                              THEN Put(acc.pkg_options, extra_name, r.pkg_options)
                              ELSE acc.pkg_options]

\* for filename in sorted(os.listdir(entry_path)), from the i-th name on
RECURSIVE ScanPlatform(_, _, _, _, _)
ScanPlatform(fs, entry, names, i, acc) ==
    IF i > Len(names) THEN acc
    ELSE ScanPlatform(fs, entry, names, i + 1,
           IF names[i] \notin DOMAIN TaskOf THEN acc
           ELSE AddExtra(fs, acc,
                         IF TaskOf[names[i]] = "base" THEN entry
                         ELSE entry \o "-" \o TaskOf[names[i]],
                         <<"requirements", entry, names[i]>>))

\* for entry in sorted(os.listdir(req_dir)), from the i-th entry on
RECURSIVE ScanRequirements(_, _, _, _)
ScanRequirements(fs, entries, i, acc) ==
    IF i > Len(entries) THEN acc
    ELSE ScanRequirements(fs, entries, i + 1,
           IF ~IsDir(fs, <<"requirements", entries[i]>>) THEN acc
           ELSE ScanPlatform(fs, entries[i],
                             ListDir(fs, <<"requirements", entries[i]>>), 1, acc))

\* build_extras()
BuildExtras(fs) ==
    AddExtra(fs, ScanRequirements(fs, ListDir(fs, <<"requirements">>), 1, NoExtras),
             "dev", <<"requirements", "dev.txt">>)

notsetup == <<config, gvars, xvars, cvars, ivars, layout>>

\* a call of parse_requirements on a file of the tree or on a missing one
ParseRequirementsCall ==
    /\ setup.pc = "ready"
    /\ \E req_file \in DOMAIN setup.fs \cup {<<"nonexistent", "file.txt">>} :
         /\ req_file[Len(req_file)] \in DOMAIN TaskOf \cup {"file.txt"}
         /\ setup' = [setup EXCEPT !.last = [fn |-> "parse_requirements", arg |-> req_file,
                                              ret |-> ParseRequirements(setup.fs, req_file, 1)]]
    /\ UNCHANGED notsetup

\* EXTRAS, PIP_OPTIONS, PKG_OPTIONS = build_extras()
BuildExtrasCall ==
    /\ setup.pc = "ready"
    /\ setup' = [setup EXCEPT !.last = [fn |-> "build_extras", arg |-> <<>>,
                                         ret |-> BuildExtras(setup.fs)]]
    /\ UNCHANGED notsetup

TrainTxt == <<"requirements", "cuda", "train.txt">>
BaseTxt == <<"requirements", "cuda", "base.txt">>
DevTxt == <<"requirements", "dev.txt">>
NotesMd == <<"requirements", "cuda", "notes.md">>

\* the lines of requirements/cuda/train.txt
TrainLines ==
    { Line("", ""), Line("#", " a regular comment"),
      Bracket(<< <<"--", "no-build-isolation">> >>),
      Bracket(<< <<"--", "verbose">>, <<"--", "no-deps">> >>),
      Bracket(<< <<"--", "verbose">>, <<"", "no-build-isolation">> >>),
      Line("-", "-pre"), Include(<<".", "base.txt">>),
      Line("", "megatron-core"), Line("", "scipy==1.14.1") }

\* requirements/cuda/base.txt: missing, plain, annotated, including itself,
\* including the file that includes it
BaseFiles ==
    { <<>>,
      << <<Line("", "torch==2.9.1")>> >>,
      << <<Bracket(<< <<"--", "no-build-isolation">> >>), Line("", "torch==2.9.1")>> >>,
      << <<Include(<<"base.txt">>)>> >>,
      << <<Line("", "torch==2.9.1"), Include(<<"..", "cuda", "train.txt">>)>> >> }

\* requirements/dev.txt: missing or present
DevFiles == { <<>>, << <<Line("-", "-pre"), Line("", "pytest")>> >> }

Tree(train, base, dev) ==
    (TrainTxt :> train @@ NotesMd :> <<>>)
    @@ (IF base = <<>> THEN NoDict ELSE (BaseTxt :> base[1]))
    @@ (IF dev = <<>> THEN NoDict ELSE (DevTxt :> dev[1]))

NoSetupCall == [fn |-> "", arg |-> <<>>, ret |-> EmptyResult]

InitSetup ==
    /\ config = PlainConfig
    /\ dirs = {}
    /\ files = <<>>
    /\ call = Idle
    /\ done = <<>>
    /\ ncalls = 0
    /\ target = NoTarget
    /\ procs = <<>>
    /\ data = <<>>
    /\ sh = NoShell
    /\ stopsh = NoShell
    /\ nexec = 0
    /\ cli = NoCli
    /\ job = NoJob
    /\ inv = NoInv
    /\ env = NoEnv
    /\ layout = NoLayout
    /\ \E n \in 0..MaxReqLines :
         \E train \in [1..n -> TrainLines], base \in BaseFiles, dev \in DevFiles :
           setup = [pc |-> "ready", fs |-> Tree(train, base, dev), last |-> NoSetupCall]

NextSetup ==
    \/ ParseRequirementsCall
    \/ BuildExtrasCall

SpecSetup == InitSetup /\ [][NextSetup]_vars

----------------------------------------------------------------------------
(* Properties *)

\* the names the layout of the log directory gives one host entry
EntryName(host, rank) == "host_" \o ToString(rank) \o "_" \o host
PerHostOutput == Join(config.log_dir, EntryName(target.host, target.rank) \o ".output")
SharedOutput == Join(config.log_dir, "host.output")
TargetPidFile == Join(config.pids_dir, EntryName(target.host, target.rank) \o ".pid")

Workers == {p \in DOMAIN procs : procs[p].role = "work"}
ExecOps == {"bg", "fg", "diag"}
Redirects == ~target.with_test

\* the run shell has gone past the execution statement of its script
PastExec == sh.status \in {"running", "done"} /\ sh.pc > Len(sh.lines)

RunsDone == {k \in DOMAIN done : k.kind = "run"}
BackgroundDone == {k \in RunsDone : done[k].args[2] /\ ~done[k].args[3]}
ExecOf(k) == done[k].content[Len(done[k].content)]

C3_PidCapturedAtLaunch ==
    target.background /\ ~target.with_test =>
       /\ sh.status # "waiting"
       /\ PastExec =>
            /\ TargetPidFile \in DOMAIN data
            /\ data[TargetPidFile] = <<sh.bang>>
            /\ sh.bang \in DOMAIN procs
            /\ procs[sh.bang].role = "sup"
            /\ procs[sh.bang].cmd = target.cmd

\* the background run script has returned, the pid file is there and the
\* workload is still running
C3_Witness ==
    /\ target.background /\ ~target.with_test
    /\ sh.status = "done"
    /\ TargetPidFile \in DOMAIN data
    /\ \E p \in Workers : procs[p].alive /\ procs[p].ppid = data[TargetPidFile][1]

RunLines == files[HostRunScriptFile(config, target.host, target.rank)].cache
ExpectedMode ==
    IF target.with_test THEN "diag" ELSE IF target.background THEN "bg" ELSE "fg"

\* C4: the run script holds exactly one execution statement, its last:
\* diagnostic when with_test, else background when background, else
\* foreground.  The pid file is written only in background mode; in
\* diagnostic mode no output or pid file is written and the script goes
\* past the command only when the command has ended.
C4_OneExecutionMode ==
    /\ Cardinality({i \in DOMAIN RunLines : RunLines[i].op \in ExecOps}) = 1
    /\ RunLines[Len(RunLines)].op = ExpectedMode
    /\ TargetPidFile \in DOMAIN data => target.background /\ ~target.with_test
    /\ target.with_test =>
          /\ data = <<>>
          /\ \A p \in DOMAIN procs : procs[p].out = ""
          /\ PastExec => \A p \in DOMAIN procs : ~procs[p].alive

\* a diagnostic run made with background = true has completed
C4_Witness ==
    /\ target.with_test /\ target.background
    /\ sh.status = "done"
    /\ procs # <<>>

StopActive == stopsh.status \in {"running", "done"}

\* C5: the stop script tests the pid file of (nodeRank, host) and issues
\* exactly one termination: when the file existed at the test, pkill -P of
\* the recorded pid, which signals only children of that pid and never the
\* pid itself; when it did not, the pattern kill of the processes whose
\* command line matches the interpreter name.
C5_OneTermination ==
    StopActive =>
       /\ stopsh.lines[2].op = "if_pidfile" /\ stopsh.lines[2].a = TargetPidFile
       /\ Len(stopsh.kills) = (IF stopsh.pc > 2 THEN 1 ELSE 0)
       /\ stopsh.found => TargetPidFile \in DOMAIN data
       /\ \A i \in DOMAIN stopsh.kills :
             LET e == stopsh.kills[i] IN
             /\ (e.how = "parent") = stopsh.found
             /\ e.how = "parent" =>
                   /\ e.pid \in DOMAIN procs /\ procs[e.pid].role = "sup"
                   /\ e.pid \notin e.hit
                   /\ \A h \in e.hit : procs[h].ppid = e.pid
             /\ e.how # "parent" =>
                   /\ e.how = "pattern"
                   /\ \A h \in e.hit : procs[h].cmd \in PythonCommands

\* a stop found the pid file and killed the workload; the recorded pid,
\* the supervising shell, is still alive
C5_Witness ==
    /\ StopActive
    /\ \E i \in DOMAIN stopsh.kills :
          /\ stopsh.kills[i].how = "parent"
          /\ stopsh.kills[i].hit # {}
          /\ Alive(stopsh.kills[i].pid)

\* C6: every execution of the stop script runs the after-stop hook exactly
\* once, as its last statement, after the termination step of either branch,
\* whether or not that step found a process.
C6_HookLast ==
    /\ StopActive =>
          /\ stopsh.lines[Len(stopsh.lines)] = St("hook", AfterStop(config), "")
          /\ \E n \in 0..3 : stopsh.trace = SubSeq(<<"shebang", "if_pidfile", "hook">>, 1, n)
    /\ stopsh.status = "done" =>
          /\ Len(stopsh.kills) = 1
          /\ stopsh.trace = <<"shebang", "if_pidfile", "hook">>

\* a stop script has run to its end and its termination step found nothing
C6_Witness ==
    /\ stopsh.status = "done"
    /\ stopsh.kills[1].hit = {}
    /\ stopsh.trace[Len(stopsh.trace)] = "hook"

RunActive == sh.status \in {"running", "waiting", "done"}
ExpectedOrder ==
    << "shebang", "hook", "mkdir", "mkdir", "mkdir", "mkdir", "mkdir",
       "cd", "export", "assign", ExpectedMode >>
RuntimeDirs ==
    { config.save_dir, config.log_dir, config.pids_dir,
      config.tensorboard_dir, config.wandb_save_dir }

\* C7: the run script executes, in this order, the before-start hook, the
\* five mkdir -p, the cd into the installation root, the export of
\* PYTHONPATH and the command; every process it launches starts with the
\* save, log, pid, tensorboard and wandb directories present, in the
\* installation root and with PYTHONPATH set; in background mode the pid
\* is captured.
C7_RunOrder ==
    /\ RunActive =>
          /\ \E n \in 0..Len(ExpectedOrder) : sh.trace = SubSeq(ExpectedOrder, 1, n)
          /\ sh.lines[2] = St("hook", BeforeStart(config), "")
          /\ Len(sh.trace) >= 7 => RuntimeDirs \subseteq dirs
    /\ \A p \in DOMAIN procs :
          /\ RuntimeDirs \subseteq procs[p].made
          /\ procs[p].cwd = PkgDir
          /\ procs[p].env = "/opt/FlagScale/flagscale/compress:/opt/FlagScale/flagscale/train:/opt/FlagScale"
          /\ procs[p].cmd = target.cmd
    /\ RunActive /\ PastExec /\ ExpectedMode = "bg" => TargetPidFile \in DOMAIN data

\* a foreground run has launched its command, after all the steps before it
C7_Witness ==
    /\ sh.status = "waiting"
    /\ ExpectedMode = "fg"
    /\ Len(sh.trace) = Len(ExpectedOrder)
    /\ \E p \in Workers : procs[p].alive

\* the whole script a call with this key and these arguments writes
ExpectedContent(k, args) ==
    IF k.kind = "run"
    THEN RunScriptHead(config)
         \o RunScriptTail(args[1], HostOutputFile(config, k.host, k.rank),
                          HostPidFile(config, k.host, k.rank), args[2], args[3])
    ELSE StopScriptHead(HostPidFile(config, k.host, k.rank)) \o StopScriptTail(config)

\* C8: the file is marked executable only when the whole script has been
\* flushed and is on disk; from the return of a call onwards (until a new
\* call opens the same path), and across crashes of the machine, the file at
\* the returned path holds the whole script, in the cache and on disk.
C8_SyncedBeforeReturn ==
    /\ call.pc = "chmod" =>
          /\ call.buf = <<>>
          /\ files[call.path].cache = call.head \o call.tail
          /\ files[call.path].disk = call.head \o call.tail
    /\ \A k \in DOMAIN done :
          /\ done[k].path \in DOMAIN files
          /\ done[k].content = ExpectedContent(k, done[k].args)
          /\ files[done[k].path].disk = done[k].content
          /\ files[done[k].path].cache = done[k].content
          /\ files[done[k].path].mode = "0755"

\* the machine has crashed after a call returned
C8_Witness ==
    /\ call = Crashed
    /\ \E k \in DOMAIN done : files[done[k].path].disk = ExpectedContent(k, done[k].args)

\* a step of generate_run_script or generate_stop_script
GenStep ==
    \/ \E e \in GenEntries, c \in GenCommands, bg \in BOOLEAN, wt \in BOOLEAN :
          GenerateRunScript(e[1], e[2], c, bg, wt)
    \/ \E e \in GenEntries : GenerateStopScript(e[1], e[2])
    \/ WriteHead \/ WriteTail \/ Spill \/ Flush \/ Fsync \/ ChmodReturn

ScriptPathOf(k) ==
    Join(config.scripts_dir,
         EntryName(k.host, k.rank) \o (IF k.kind = "run" THEN "_run.sh" ELSE "_stop.sh"))

C10_Idempotent ==
    \A k \in DOMAIN done :
       done[k].prev # <<>> /\ done[k].prev[1].args = done[k].args =>
          /\ done[k].prev[1].path = done[k].path
          /\ done[k].prev[1].content = done[k].content
          /\ files[done[k].path].cache = done[k].content
          /\ files[done[k].path].mode = "0755"

\* the same call was made twice and both calls completed
C10_Witness ==
    \E k \in DOMAIN done :
       /\ done[k].prev # <<>>
       /\ done[k].prev[1].args = done[k].args
       /\ k.kind = "run"

\* the entries of the pool of the invocation, and the script of each
PoolEntries == { inv.resources[i] : i \in DOMAIN inv.resources }
EntryScript(e) == ScriptPath(inv.kind, e.host, e.node_rank)

\* the invocation failed on a missing hostfile or an unwritable directory
FailedFast ==
    /\ inv.pc = "failed"
    /\ \/ inv.exc.type = "HostfileNotFound"
       \/ "errno" \in DOMAIN inv.exc.attrs /\ inv.exc.attrs["errno"] = "EACCES"

(* C11: when an invocation has failed on a missing hostfile or on a         *)
(* directory that cannot be written, it has generated no script for any    *)
(* host, and the scripts of the pool are not present for some hosts and    *)
(* absent for others.                                                      *)
C11_NoPartialScripts ==
    (inv.pc # "none" /\ FailedFast) =>
      /\ inv.generated = {}
      /\ ~ \E a, b \in PoolEntries :
             EntryScript(a) \in DOMAIN files /\ EntryScript(b) \notin DOMAIN files

\* the steps of a generate call that do I/O
GenerateOps == {"makedirs", "open", "write", "chmod"}

(* C12: when a generate call has failed in creating the scripts directory, *)
(* in writing the script or in setting its mode, what reaches the caller   *)
(* is a ScriptGenerationError that carries the host and the node rank of   *)
(* the script being generated.                                             *)
C12_ErrorContext ==
    (inv.pc = "failed" /\ inv.exc.op \in GenerateOps) =>
      /\ inv.exc.type = "ScriptGenerationError"
      /\ {"host", "node_rank"} \subseteq DOMAIN inv.exc.attrs
      /\ inv.exc.attrs["host"] = inv.resources[inv.i + 1].host
      /\ inv.exc.attrs["node_rank"] = inv.resources[inv.i + 1].node_rank

\* the lines of a hostfile that are neither blank nor comments
KeptLines(lines) == { j \in DOMAIN lines : lines[j] # <<>> /\ lines[j][1] # "#" }

\* the i-th of them, in file order
KeptLine(lines, i) ==
    CHOOSE j \in KeptLines(lines) : Cardinality({k \in KeptLines(lines) : k <= j}) = i

(* C17: every pool parse_hostfile returns for an existing hostfile has one *)
(* entry per line that is neither blank nor a comment, in the order of the *)
(* file, the i-th entry (from 0) having node rank i; and every parse of    *)
(* the same file returns the same pool.                                    *)
C17_RanksByLineOrder ==
    (inv.pc # "none" /\ env.hostfile.configured /\ env.hostfile.exists) =>
      \A n \in DOMAIN inv.parses :
        LET pool  == inv.parses[n]
            lines == env.hostfile.lines
        IN  /\ Len(pool) = Cardinality(KeptLines(lines))
            /\ \A i \in DOMAIN pool :
                 /\ pool[i].node_rank = i - 1
                 /\ pool[i].host = lines[KeptLine(lines, i)][1]
            /\ pool = inv.parses[1]
            /\ n = Len(inv.parses) => inv.resources = pool

C17_Witness ==
    /\ inv.pc = "finished"
    /\ Len(inv.parses) = 2
    /\ env.hostfile.exists
    /\ Len(env.hostfile.lines) = 3
    /\ env.hostfile.lines[1] = <<"#", "gpu nodes">>
    /\ Len(inv.resources) = 2
    /\ inv.resources[1].host = "node-b"

(* C18: when no hostfile is configured, parse_hostfile does not fail and   *)
(* returns exactly one entry, the local machine, with node rank 0 and slot *)
(* count 1.                                                                *)
C18_LocalDefault ==
    (inv.pc \notin {"none", "idle"} /\ ~env.hostfile.configured) =>
      /\ inv.exc.type # "HostfileNotFound"
      /\ \A n \in DOMAIN inv.parses :
           /\ Len(inv.parses[n]) = 1
           /\ inv.parses[n][1].node_rank = 0
           /\ inv.parses[n][1].slots = 1
           /\ inv.parses[n][1].host = "localhost"
      /\ Len(inv.resources) = 1

C18_Witness ==
    /\ inv.pc = "finished"
    /\ ~env.hostfile.configured
    /\ Cardinality(inv.generated) = 1

\* the positions of the arguments of a get_action call that are True
TrueArgs(args) == {i \in 1..5 : args[i]}

\* the action each of the five flags stands for
FlagAction == <<"stop", "dryrun", "test", "query", "auto_tune">>

(* C13: whenever get_action is called with at most one of its five flags   *)
(* true, it returns "run" if none is true and otherwise the action named   *)
(* after the single true flag (stop, dryrun, test, query, auto_tune), and  *)
(* it does not raise.                                                      *)
C13_SingleFlagAction ==
    cli.pc # "none" =>
      \A n \in DOMAIN cli.calls :
        LET g == cli.calls[n] IN
        Cardinality(TrueArgs(g.args)) <= 1 =>
          /\ ~g.res.raised
          /\ g.res.value = IF TrueArgs(g.args) = {} THEN "run"
                           ELSE FlagAction[CHOOSE i \in TrueArgs(g.args) : TRUE]
          /\ cli.exists => cli.action = g.res.value

C13_Witness ==
    /\ cli.pc = "main"
    /\ cli.command = "train"
    /\ cli.calls # <<>>
    /\ TrueArgs(cli.calls[1].args) = {5}
    /\ cli.action = "auto_tune"

(* C14: whenever get_action is called with two or more flags true it       *)
(* returns no action: the command ends with exit code 1, run_task is never *)
(* reached, and the one line written to stderr names every flag that is    *)
(* set.                                                                    *)
C14_ConflictingFlags ==
    cli.pc # "none" =>
      \A n \in DOMAIN cli.calls :
        LET g == cli.calls[n] IN
        Cardinality(TrueArgs(g.args)) >= 2 =>
          /\ g.res.raised
          /\ g.res.value = ""
          /\ cli.pc = "done"
          /\ cli.result = Exit(1)
          /\ cli.action = ""
          /\ cli.argv = <<>>
          /\ Len(cli.stderr) = 1
          /\ cli.stderr[1][1] = "Error: Flags are mutually exclusive: --"
          /\ \A i \in TrueArgs(g.args) :
               \E j \in DOMAIN cli.stderr[1] : cli.stderr[1][j] = FlagAction[i]

C14_Witness ==
    /\ cli.pc = "done"
    /\ cli.calls # <<>>
    /\ TrueArgs(cli.calls[1].args) = {1, 3, 5}
    /\ cli.result = Exit(1)

\* the run scripts of the pool
RunScripts == { <<"run", r>> : r \in Pool }

(* C15: a script is handed to the execution collaborator only when the     *)
(* action given to run_task is run, test, auto_tune or stop; when it is    *)
(* dryrun, only run scripts are generated (all of them once the entrypoint *)
(* has returned without raising), none is handed off and none is executed. *)
C15_HandOffByAction ==
    /\ job.handed # {} => cli.action \in {"run", "test", "auto_tune", "stop"}
    /\ job.started \subseteq job.handed
    /\ (cli.pc # "none" /\ cli.action = "dryrun") =>
         /\ job.handed = {}
         /\ job.started = {}
         /\ job.generated \subseteq RunScripts
         /\ (cli.result = Returned /\ cli.exc = NoExc) => job.generated = RunScripts

C15_Witness ==
    /\ cli.pc = "done"
    /\ cli.action = "dryrun"
    /\ cli.result = Returned
    /\ cli.exc = NoExc
    /\ job.generated = RunScripts
    /\ job.handed = {}

\* the configuration file a command runs with
ConfigFile ==
    IF cli.command = "run" THEN "/repo/conf/train.yaml"
    ELSE "/repo/examples/aquila/conf/" \o cli.command \o ".yaml"

(* C16: when the entrypoint run by run_task raises SystemExit with a       *)
(* non-zero code, run_task's caller gets that SystemExit with the same     *)
(* code; with code 0 or None, run_task returns normally; and when it       *)
(* raises any other Exception, the caller gets exit code 1 after the       *)
(* configuration file's path, the error and a hint were written to stderr. *)
C16_ExitPropagation ==
    (cli.pc = "done" /\ cli.exc # NoExc) =>
      /\ (cli.exc.type = "SystemExit" /\ ~cli.exc.code.none /\ cli.exc.code.v # 0) =>
           cli.result = [kind |-> "SystemExit", code |-> cli.exc.code]
      /\ (cli.exc.type = "SystemExit" /\ (cli.exc.code.none \/ cli.exc.code.v = 0)) =>
           /\ cli.result = Returned
           /\ cli.stderr = <<>>
      /\ cli.exc.type \in {"RuntimeError", "ValueError"} =>
           /\ cli.result = Exit(1)
           /\ Len(cli.stderr) = 3
           /\ cli.stderr[1] = <<"Config error in: ", ConfigFile>>
           /\ cli.stderr[2] = <<"Error: ", cli.exc.msg>>
           /\ cli.stderr[3][1] = "Hint: "

C16_Witness ==
    /\ cli.pc = "done"
    /\ cli.exc.type = "SystemExit"
    /\ cli.exc.code = Code(2)
    /\ cli.result = [kind |-> "SystemExit", code |-> Code(2)]
    /\ job.handed # {}

\* the log directory a call of setup_logging_dirs has to arrive at
ExpectedLogDir(c) ==
    IF c.before.log_dir.state = "set"
    THEN IF c.before.log_dir.value.abs THEN c.before.log_dir.value
         ELSE Path(TRUE, Normalize(layout.cwd.parts \o c.before.log_dir.value.parts))
    ELSE Path(TRUE, Append(c.exp_dir.parts, c.log_subdir))

(* C19: after every call of setup_logging_dirs, log_dir is the configured  *)
(* log directory made absolute when one was given and was not None, and    *)
(* <exp_dir>/<log_subdir> otherwise; scripts_dir is <log_dir>/scripts and  *)
(* pids_dir is <log_dir>/pids, all three written into the logging          *)
(* configuration; and the call returns log_dir.                            *)
C19_LoggingDirs ==
    layout.pc # "none" =>
      \A n \in DOMAIN layout.calls :
        LET c == layout.calls[n]
            log_dir == ExpectedLogDir(c)
        IN  /\ log_dir.abs
            /\ c.ret = log_dir
            /\ c.after.log_dir = Value(log_dir)
            /\ c.after.scripts_dir = Value(Path(TRUE, Append(log_dir.parts, "scripts")))
            /\ c.after.pids_dir = Value(Path(TRUE, Append(log_dir.parts, "pids")))
            /\ n = Len(layout.calls) => layout.logging = c.after

C19_Witness ==
    /\ layout.pc = "ready"
    /\ layout.cwd = Path(TRUE, <<"work", "sub">>)
    /\ Len(layout.calls) = 2
    /\ layout.calls[1].before.log_dir = Value(Path(FALSE, <<".", "logs", "run1">>))
    /\ PathText(layout.calls[2].ret) = "/work/sub/logs/run1"
    /\ PathText(layout.logging.pids_dir.value) = "/work/sub/logs/run1/pids"

(* C20: however often setup_exp_dir is called on one configuration, the    *)
(* experiment directory and its parents exist afterwards, every call       *)
(* returns the same absolute path, and every file that was in the          *)
(* experiment directory before is still there with its content.            *)
C20_ExpDirIdempotent ==
    (layout.pc # "none" /\ layout.returns # <<>>) =>
      /\ \A n \in DOMAIN layout.returns :
           /\ layout.returns[n].abs
           /\ layout.returns[n] = layout.returns[1]
           /\ WithParents(layout.returns[n]) \subseteq dirs
      /\ \A f \in DOMAIN layout.files0 :
           f \in DOMAIN files /\ files[f] = layout.files0[f]

C20_Witness ==
    /\ layout.pc = "ready"
    /\ Len(layout.returns) = 2
    /\ layout.exp_dir = Path(FALSE, <<"..", "sibling">>)
    /\ PathText(layout.returns[2]) = "/work/sibling"
    /\ "/work/sibling/marker.txt" \in DOMAIN files

Names(message, text) == \E i \in DOMAIN message : message[i] = text

(* C21: after every call of resolve_path, a path that exists gave neither  *)
(* a warning nor an error; a missing path with raise_missing gave a        *)
(* FileNotFoundError naming the config key, whatever check_exists was; a   *)
(* missing path with check_exists alone gave exactly one warning naming    *)
(* the key and the resolved path, and the resolved path was returned; and  *)
(* a missing path with neither flag gave neither.                          *)
C21_MissingPathPolicy ==
    (layout.pc # "none" /\ layout.resolved.called) =>
      LET r == layout.resolved IN
      /\ r.exists => (r.exc = NoPathError /\ r.warnings = <<>>)
      /\ (~r.exists /\ r.raise_missing) =>
           /\ r.exc.type = "FileNotFoundError"
           /\ Names(r.exc.message, r.config_key)
      /\ (~r.exists /\ ~r.raise_missing /\ r.check_exists) =>
           /\ r.exc = NoPathError
           /\ Len(r.warnings) = 1
           /\ Names(r.warnings[1], r.config_key)
           /\ Names(r.warnings[1], PathText(r.ret))
           /\ r.ret = ResolvePath(r.path, layout.cwd)
      /\ (~r.exists /\ ~r.raise_missing /\ ~r.check_exists) =>
           (r.exc = NoPathError /\ r.warnings = <<>>)

C21_Witness ==
    /\ layout.pc = "ready"
    /\ layout.resolved.called
    /\ ~layout.resolved.exists
    /\ layout.resolved.raise_missing
    /\ layout.resolved.check_exists
    /\ layout.resolved.config_key = "hydra.config_path"
    /\ layout.resolved.exc.type = "FileNotFoundError"

(* C22: every call of resolve_path returns an absolute path; an absolute   *)
(* argument is returned unchanged, a relative one joined to the working    *)
(* directory; and resolving the result again gives the same path.          *)
C22_ResolveIdempotent ==
    (layout.pc # "none" /\ layout.resolved.called) =>
      LET r == layout.resolved IN
      /\ r.ret.abs
      /\ r.path.abs => r.ret = r.path
      /\ ~r.path.abs =>
           /\ r.ret.parts = Normalize(layout.cwd.parts \o r.path.parts)
           /\ (\A i \in DOMAIN r.path.parts : r.path.parts[i] \notin {".", ".."}) =>
                PathText(r.ret) = PathText(layout.cwd) \o "/" \o PathText(r.path)
      /\ r.again = r.ret

C22_Witness ==
    /\ layout.pc = "ready"
    /\ layout.resolved.called
    /\ layout.resolved.path = Path(FALSE, <<"..", "sibling">>)
    /\ layout.cwd = Path(TRUE, <<"work", "sub">>)
    /\ layout.resolved.ret = Path(TRUE, <<"work", "sibling">>)
    /\ layout.resolved.again = layout.resolved.ret

\* the flags of the command line that its command declares and that are set
DeclaredSet == { f \in Declared(cli.command) : cli.flags[f] }

(* C25: once a task command (train, serve, inference, rl, compress) given  *)
(* two or more of its flags and an existing configuration has acted, it    *)
(* has ended with exit code 1 and the mutually-exclusive-flags line on     *)
(* stderr, and run_task was not called with any action.                    *)
C25_TaskFlagsExclusive ==
    (cli.pc \notin {"none", "start"} /\ cli.command \in Tasks /\ cli.exists
       /\ Cardinality(DeclaredSet) >= 2) =>
      /\ cli.argv = <<>>
      /\ cli.action = ""
      /\ cli.pc = "done"
      /\ cli.result = Exit(1)
      /\ Len(cli.stderr) = 1
      /\ cli.stderr[1][1] = "Error: Flags are mutually exclusive: --"

\* the pid files the installed run script writes and the installed stop
\* script tests
StopLines == files[HostStopScriptFile(config, target.host, target.rank)].cache
RunPidFiles == { RunLines[i].b : i \in { j \in DOMAIN RunLines : RunLines[j].op = "bg" } }
StopPidFiles ==
    { StopLines[i].a : i \in { j \in DOMAIN StopLines : StopLines[j].op = "if_pidfile" } }

\* a step keeps the two scripts on one pid file, and a stop script's test and
\* kill follow the file the run script wrote
SamePidFileStep ==
    /\ RunPidFiles \subseteq StopPidFiles
    /\ \A f \in RunPidFiles :
         (stopsh.status = "running" /\ stopsh'.status = "running") =>
           /\ (stopsh.branch = "" /\ stopsh'.branch # "" /\ f \in DOMAIN data)
                => stopsh'.found
           /\ (Len(stopsh'.kills) > Len(stopsh.kills) /\ stopsh.found)
                => /\ f \in DOMAIN data
                   /\ stopsh'.kills[Len(stopsh'.kills)].pid = data[f][1]

(* C26: the pid file the background run script writes is the one the stop  *)
(* script tests and reads: a stop script that reaches its test when the    *)
(* run script has written the file finds it, and the pid it then uses is   *)
(* the one recorded there.                                                 *)
C26_SamePidFile == [][SamePidFileStep]_vars

C26_Witness ==
    /\ target.background /\ ~target.with_test
    /\ sh.status = "done"
    /\ stopsh.status = "done"
    /\ stopsh.found
    /\ Len(stopsh.kills) = 1
    /\ stopsh.kills[1].pid = sh.bang
    /\ stopsh.kills[1].hit = {sh.bang + 1}
    /\ RunPidFiles = StopPidFiles

\* a step leaves a written pid file in place, and a test made then takes the
\* pid-file branch
PidFileStaysStep ==
    TargetPidFile \in DOMAIN data =>
      /\ TargetPidFile \in DOMAIN data'
      /\ (stopsh.status = "running" /\ stopsh'.status = "running"
            /\ stopsh.branch = "" /\ stopsh'.branch # "") => stopsh'.branch = "then"
      /\ (stopsh.status = "running" /\ stopsh'.status = "running"
            /\ stopsh.branch = "then" /\ Len(stopsh'.kills) > Len(stopsh.kills))
           => stopsh'.kills[Len(stopsh'.kills)].how = "parent"

(* C27: no step of either script removes the pid file once it is written,  *)
(* neither the end of the workload nor any execution of the stop script;   *)
(* and a stop script that reaches its test while the file is there takes   *)
(* the pid-file branch, never the pattern kill.                            *)
C27_PidFileStays == [][PidFileStaysStep]_vars

\* one background run, then two executions of the stop script, the second
\* after the workload was gone
C27_Witness ==
    /\ target.background /\ ~target.with_test
    /\ nexec = 3
    /\ Len(procs) = 2
    /\ ~procs[2].alive
    /\ stopsh.status = "done"
    /\ stopsh.found
    /\ stopsh.kills[1].how = "parent"
    /\ stopsh.kills[1].hit = {}
    /\ TargetPidFile \in DOMAIN data

IsPrefix(s, t) == Len(s) <= Len(t) /\ SubSeq(t, 1, Len(s)) = s

\* the pid of the supervising shell launched last
LastLaunch ==
    CHOOSE p \in {q \in DOMAIN procs : procs[q].role = "sup"} :
        \A q \in DOMAIN procs : procs[q].role = "sup" => q <= p

\* a step only appends to output files and leaves one pid in the pid file
OverwriteAppendStep ==
    /\ \A p \in DOMAIN data \ {TargetPidFile} :
         p \in DOMAIN data' /\ IsPrefix(data[p], data'[p])
    /\ TargetPidFile \in DOMAIN data' =>
         /\ Len(data'[TargetPidFile]) = 1
         /\ data'[TargetPidFile][1] = LastLaunch'

(* C28: at every step the pid file, when there is one, holds exactly one   *)
(* pid, that of the most recent launch; and every output file keeps what   *)
(* it held and is only added to at its end, whatever run executes.         *)
C28_PidOverwrittenOutputAppended == [][OverwriteAppendStep]_vars

\* two background runs whose workloads both wrote their output
C28_Witness ==
    /\ target.background /\ ~target.with_test
    /\ sh.status = "done"
    /\ TargetPidFile \in DOMAIN data
    /\ data[TargetPidFile] = <<3>>
    /\ \E p \in DOMAIN data \ {TargetPidFile} : data[p] = <<2, 4>>

\* the whole scripts either generator can write at a path
CompleteScripts(p) ==
    { ExpectedContent(Key(kind, e[1], e[2]), <<c, bg, wt>>) :
        kind \in { k \in {"run", "stop"} :
                     \E e0 \in GenEntries : ScriptPathOf(Key(k, e0[1], e0[2])) = p },
        e \in { e0 \in GenEntries :
                  \E k \in {"run", "stop"} : ScriptPathOf(Key(k, e0[1], e0[2])) = p },
        c \in GenCommands, bg \in BOOLEAN, wt \in BOOLEAN }

(* C29: at every instant, also while a script is being generated over an   *)
(* existing one and after a crash of the machine, a file that is marked    *)
(* executable holds a whole script, never an empty or a truncated one.     *)
C29_ExecutableIsComplete ==
    \A p \in DOMAIN files :
       files[p].mode = "0755" => files[p].cache \in CompleteScripts(p)

\* a package line: neither blank, nor a comment, nor an option or include
IsPackage(line) == LineText(line) # "" /\ line.head = ""

\* the options a comment line announces: those of "# [--a --b]", none for
\* any other comment
OptionWords(line) ==
    IF line.head = "#" /\ line.bracket /\ line.words # <<>>
         /\ \A k \in DOMAIN line.words : line.words[k][1] = "--"
    THEN [k \in DOMAIN line.words |-> "--" \o line.words[k][2]]
    ELSE <<>>

\* the options announced on the lines from j to i - 1, in order
RECURSIVE Announced(_, _, _)
Announced(lines, j, i) ==
    IF j >= i THEN <<>> ELSE OptionWords(lines[j]) \o Announced(lines, j + 1, i)

\* the options announced between the package line before line i and line i
ExpectedOptions(lines, i) ==
    LET before == {j \in 1..(i - 1) : IsPackage(lines[j])}
        from == IF before = {} THEN 1
                ELSE (CHOOSE j \in before : \A k \in before : k <= j) + 1
    IN  Announced(lines, from, i)

Occurrences(seq, x) == Cardinality({k \in DOMAIN seq : seq[k] = x})

(* C23: in what parse_requirements returns, a package that occurs once     *)
(* among the dependencies has as its options exactly those announced by    *)
(* the "# [--opt ...]" comments between the package line before it in its  *)
(* file and its own line, in the order of the file, and has no options     *)
(* when there are none: blank lines, other comments, brackets with a word  *)
(* that does not start with "--", pip options and -r includes in between   *)
(* change nothing.                                                         *)
C23_AnnotationNextPackageOnly ==
    (setup.pc # "none" /\ setup.last.fn = "parse_requirements" /\ ~setup.last.ret.raised) =>
      LET r == setup.last.ret IN
      \A f \in DOMAIN setup.fs : \A i \in DOMAIN setup.fs[f] :
         LET line == setup.fs[f][i]
             e == ExpectedOptions(setup.fs[f], i)
         IN  (IsPackage(line) /\ Occurrences(r.deps, LineText(line)) = 1) =>
               IF e = <<>> THEN LineText(line) \notin DOMAIN r.pkg_options
               ELSE /\ LineText(line) \in DOMAIN r.pkg_options
                    /\ r.pkg_options[LineText(line)] = e

\* an annotation, an include, then the package; the included package is
\* left without options
C23_Witness ==
    /\ setup.pc = "ready"
    /\ setup.last.fn = "parse_requirements"
    /\ setup.last.arg = TrainTxt
    /\ setup.fs[TrainTxt] = << Bracket(<< <<"--", "no-build-isolation">> >>),
                               Include(<<".", "base.txt">>), Line("", "megatron-core") >>
    /\ BaseTxt \in DOMAIN setup.fs
    /\ setup.last.ret.deps = <<"torch==2.9.1", "megatron-core">>
    /\ DOMAIN setup.last.ret.pkg_options = {"megatron-core"}
    /\ setup.last.ret.pkg_options["megatron-core"] = <<"--no-build-isolation">>

(* C24: in the three maps build_extras returns, every key of the pip       *)
(* options map and every key of the per-package options map is a key of    *)
(* the extras map.                                                         *)
C24_OptionKeysAreExtras ==
    (setup.pc # "none" /\ setup.last.fn = "build_extras" /\ ~setup.last.ret.raised) =>
      /\ DOMAIN setup.last.ret.pip_options \subseteq DOMAIN setup.last.ret.extras
      /\ DOMAIN setup.last.ret.pkg_options \subseteq DOMAIN setup.last.ret.extras

(* C30: every call of parse_requirements returns a result, whatever the    *)
(* files include, themselves and each other too; and the result for a      *)
(* file that does not exist is empty.                                      *)
C30_ParseTerminates ==
    (setup.pc # "none" /\ setup.last.fn = "parse_requirements") =>
      /\ ~setup.last.ret.raised
      /\ setup.last.arg \notin DOMAIN setup.fs => setup.last.ret = EmptyResult

Init ==
    /\ config \in GenConfigs
    /\ dirs = {}
    /\ files = <<>>
    /\ call = Idle
    /\ done = <<>>
    /\ ncalls = 0
    /\ target = NoTarget
    /\ procs = <<>>
    /\ data = <<>>
    /\ sh = NoShell
    /\ stopsh = NoShell
    /\ nexec = 0
    /\ cli = NoCli
    /\ job = NoJob
    /\ inv = NoInv
    /\ env = NoEnv
    /\ layout = NoLayout
    /\ setup = NoSetup

Next ==
    \/ \E e \in GenEntries, c \in GenCommands, bg \in BOOLEAN, wt \in BOOLEAN :
          GenerateRunScript(e[1], e[2], c, bg, wt)
    \/ \E e \in GenEntries : GenerateStopScript(e[1], e[2])
    \/ WriteHead
    \/ WriteTail
    \/ Spill
    \/ Flush
    \/ Fsync
    \/ ChmodReturn
    \/ Writeback
    \/ Crash

Spec == Init /\ [][Next]_vars

====
